---- MODULE Spec2Model ----
(***************************************************************************)
(* LiveForge SFU core (internal/sfu/room.go): Manager, Room, trackFanout.   *)
(* Every handler is split at the points where it takes or releases a lock,  *)
(* so that the interleavings of concurrent goroutines are the behaviours.   *)
(***************************************************************************)
EXTENDS Integers, FiniteSets, Sequences, TLC

(* ----- bounds of the model ----- *)
MaxSteps == 3
MaxSubsPerRoom == 1
FanEvents == 1
FanPackets == 2
MaxTicks == 1
MaxThreads == 2

Names == {"demo", "../etc"}
PCs == 1..MaxSteps
Fans == 1..MaxSteps
Closers == 1..MaxSteps
RoomIds == 1..MaxSteps
Tids == {"audio", "video"}

VARIABLES
  lim,          \* what the environment brings: how many calls and events, which room names
  rooms,        \* Manager.rooms: name -> Room object (0 = no entry)
  nextRoom,     \* number of Room objects built by NewRoom
  roomName,     \* Room.name
  roomsGauge,   \* metrics.Rooms
  mu,           \* Room.mu held across several steps by closePublisher (0 = free)
  publisher,    \* Room.publisher (0 = nil)
  trackFeeds,   \* Room.trackFeeds: track id -> fanout (0 = no entry)
  subs,         \* Room.subs
  subsGauge,    \* metrics.Subscribers{room}
  nextPC,       \* number of Publish/Subscribe calls started
  call,         \* the Publish/Subscribe call that builds connection c
  pcState,      \* the PeerConnection of call c: "none", "open", "closed"
  iceCount,     \* terminal ICE state changes delivered for c
  gWait,        \* closePublisher/removeSubscriber goroutines of c waiting for Room.mu
  gClose,       \* ... past the locked section, before pc.Close()
  gDec,         \* removeSubscriber goroutines before metrics.DecSubscribers
  cpTodo,       \* closePublisher holding Room.mu: feeds still to close
  cpCur,        \* closePublisher: the feed whose close() is between its two steps
  nextFan,      \* number of fanouts built by newTrackFanout
  fanPub,       \* the connection whose OnTrack built the fanout
  fanRoom,      \* the Room the OnTrack closure captured
  closed,       \* trackFanout.closed is closed
  recSet,       \* trackFanout.rec != nil
  recState,     \* the writer given to setRecorder: "none", "open", "closed"
  recCloses,    \* calls of rec.Close()
  uploads,      \* uploader.Upload goroutines started for the fanout's file
  locals,       \* trackFanout.locals (its keys)
  rejected,     \* (fanout, connection) pairs whose attach the library rejected
  drains,       \* (fanout, connection) pairs whose attach started the goroutine that reads the sender
  ot,           \* position of the OnTrack callback that built the fanout
  cr,           \* Manager.CloseRoom calls
  rl,           \* position of the fanout's readLoop goroutine
  pkt,          \* readLoop: the packet read from f.remote in this iteration
  rlRec,        \* readLoop: its local rec != nil
  nread,        \* packets f.remote.Read has returned
  delivered,    \* packets written with WriteRTP to each subscriber's local track
  recWrites,    \* calls of rec.WriteRTP on the fanout's recorder
  rtpBytes,     \* metrics.RTPBytes{room}
  rtpPackets,   \* metrics.RTPPackets{room}
  fc,           \* goroutines that call trackFanout.close() on one fanout directly
  iso,          \* one packet on its way through the fan-out loop, with the arrays its slices point to
  pli,          \* the PLI goroutine of each fanout: position, ticks taken, PLIs written and to whom
  lk,           \* threads on their way through the lock operations of the function they run
  http          \* the HTTPHandlers object (its cfg), whether the request it served last failed
                \* authOKRoom, and the response to that request

mgrVars == <<rooms, nextRoom, roomName, roomsGauge>>
roomSt == <<publisher, trackFeeds, subs>>
lockVars == <<mu, cpTodo, cpCur>>
callVars == <<nextPC, call>>
gVars == <<iceCount, gWait, gClose, gDec>>
fanIds == <<nextFan, fanPub, fanRoom, ot>>
recVars == <<recSet, recState, recCloses, uploads>>
attVars == <<locals, rejected, drains>>
loopVars == <<pkt, rlRec, nread, delivered, recWrites, rtpBytes, rtpPackets>>
unitVars == <<fc, iso, pli, lk, http>>
vars == <<lim, unitVars, mgrVars, roomSt, lockVars, subsGauge, callVars, pcState, gVars, fanIds, closed, recVars, attVars, cr, rl, loopVars>>

\* the packets a remote track brings: n bytes that parse (ok) to a timestamp and a payload, or do not
PacketsIn ==
  {[n |-> 1, ok |-> FALSE, ts |-> 0, payload |-> <<>>],
   [n |-> 2, ok |-> TRUE, ts |-> 7, payload |-> <<5>>]}

NoPkt == [seq |-> 0, n |-> 0, ok |-> FALSE, ts |-> 0, payload |-> <<>>]

RECURSIVE SumTo(_, _)
\* f[1] + .. + f[n]
SumTo(f, n) == IF n = 0 THEN 0 ELSE f[n] + SumTo(f, n - 1)

\* calls that ended with an error of the WebRTC library (bad SDP, failed negotiation)
Failed == {c \in PCs : call[c].res = "error"}

\* what the environment has brought so far: Publish and Subscribe calls, tracks,
\* terminal ICE states, attach rejections, library errors, CloseRoom calls
Steps ==
  nextPC + nextFan + SumTo(iceCount, MaxSteps) + Cardinality(rejected) + Cardinality(Failed)
  + Cardinality({k \in Closers : cr[k].loc # "idle"})

NoCall == [kind |-> "none", name |-> "", room |-> 0, loc |-> "idle", res |-> "none"]
NoCloser == [kind |-> "none", loc |-> "idle", name |-> "", room |-> 0, ok |-> FALSE, n |-> 0, took |-> {}, todo |-> {},
             shut |-> {}, pub |-> 0, feeds |-> {}, cur |-> 0, subs |-> {}]

NoFc == [loc |-> "idle", f |-> 0]
NoPli == [loc |-> "off", ticks |-> 0, n |-> 0, to |-> 0]
Threads == 1..MaxThreads
NoThread == [prog |-> "none", pc |-> 0, held |-> {}, pend |-> FALSE]
\* a request without an Authorization header
NoBearer == [tok |-> "", key |-> "", room |-> ""]
NoCfg == [AuthToken |-> "", RoomTokens |-> [n \in Names |-> ""], JWTSecret |-> "", RateLimitRPS |-> 0]
NoHttp == [up |-> FALSE, cfg |-> NoCfg, denied |-> FALSE, status |-> 0, c |-> 0]
\* an rtp.Packet as the struct holds it: scalar header fields by value, the CSRC list
\* and the payload as slices, that is, as the number of the array they point to (0 = nil)
NoRef == [seq |-> 0, ts |-> 0, csrc |-> 0, payload |-> 0]
\* the same packet with the contents of its slices
NoVal == [seq |-> 0, ts |-> 0, csrc |-> <<>>, payload |-> <<>>]
NoIso == [heap |-> <<>>, src |-> NoRef, srcVal |-> NoVal, to |-> {}, out |-> [s \in PCs |-> NoRef],
          sent |-> [s \in PCs |-> NoVal], touched |-> {}]

\* the state right after NewManager, with nothing started
Fresh ==
  /\ fc = [k \in Closers |-> NoFc]
  /\ lk = [t \in Threads |-> NoThread]
  /\ http = NoHttp
  /\ pli = [f \in Fans |-> NoPli]
  /\ rooms = [n \in Names |-> 0]
  /\ nextRoom = 0
  /\ roomName = [r \in RoomIds |-> "demo"]
  /\ roomsGauge = 0
  /\ mu = [r \in RoomIds |-> 0]
  /\ publisher = [r \in RoomIds |-> 0]
  /\ trackFeeds = [r \in RoomIds |-> [t \in Tids |-> 0]]
  /\ subs = [r \in RoomIds |-> {}]
  /\ subsGauge = [n \in Names |-> 0]
  /\ nextPC = 0
  /\ call = [c \in PCs |-> NoCall]
  /\ pcState = [c \in PCs |-> "none"]
  /\ iceCount = [c \in PCs |-> 0]
  /\ gWait = [c \in PCs |-> 0]
  /\ gClose = [c \in PCs |-> 0]
  /\ gDec = [c \in PCs |-> 0]
  /\ cpTodo = [r \in RoomIds |-> {}]
  /\ cpCur = [r \in RoomIds |-> 0]
  /\ nextFan = 0
  /\ fanPub = [f \in Fans |-> 0]
  /\ fanRoom = [f \in Fans |-> 0]
  /\ closed = [f \in Fans |-> FALSE]
  /\ recSet = [f \in Fans |-> FALSE]
  /\ recState = [f \in Fans |-> "none"]
  /\ recCloses = [f \in Fans |-> 0]
  /\ uploads = [f \in Fans |-> 0]
  /\ locals = [f \in Fans |-> {}]
  /\ rejected = {}
  /\ drains = {}
  /\ ot = [f \in Fans |-> "none"]
  /\ cr = [k \in Closers |-> NoCloser]
  /\ rl = [f \in Fans |-> "off"]
  /\ pkt = [f \in Fans |-> NoPkt]
  /\ rlRec = [f \in Fans |-> FALSE]
  /\ nread = [f \in Fans |-> 0]
  /\ delivered = [f \in Fans |-> [c \in PCs |-> <<>>]]
  /\ recWrites = [f \in Fans |-> 0]
  /\ rtpBytes = [n \in Names |-> 0]
  /\ rtpPackets = [n \in Names |-> 0]

Init ==
  /\ lim = [steps |-> MaxSteps, names |-> {"demo"}, pkts |-> 0]
  /\ iso = NoIso
  /\ Fresh

(* ----- Manager ----- *)

\* the rooms map, as the keys that have an entry
Registered == {n \in Names : rooms[n] # 0}

\* getOrCreateRoom: the Room for name n after the call (a new object when n has no entry)
RoomOf(n) == IF rooms[n] # 0 THEN rooms[n] ELSE nextRoom + 1

\* a getOrCreateRoom that builds the Room and does not put it into the map
getOrCreateRoom_NoStore(n) ==
  IF rooms[n] # 0
    THEN UNCHANGED mgrVars
    ELSE /\ nextRoom + 1 \in RoomIds
         /\ nextRoom' = nextRoom + 1
         /\ roomName' = [roomName EXCEPT ![nextRoom + 1] = n]
         /\ UNCHANGED <<rooms, roomsGauge>>

\* a getOrCreateRoom that never looks the name up
getOrCreateRoom_AlwaysNew(n) ==
  /\ nextRoom + 1 \in RoomIds
  /\ nextRoom' = nextRoom + 1
  /\ rooms' = [rooms EXCEPT ![n] = nextRoom + 1]
  /\ roomName' = [roomName EXCEPT ![nextRoom + 1] = n]
  /\ roomsGauge' = Cardinality(Registered \cup {n})

\* getOrCreateRoom: the whole locked section; the gauge is set inside it
getOrCreateRoom(n) ==
  IF rooms[n] # 0
    THEN UNCHANGED mgrVars
    ELSE /\ nextRoom + 1 \in RoomIds
         /\ nextRoom' = nextRoom + 1
         /\ rooms' = [rooms EXCEPT ![n] = nextRoom + 1]
         /\ roomName' = [roomName EXCEPT ![nextRoom + 1] = n]
         /\ roomsGauge' = Cardinality(Registered \cup {n})

\* Manager.Publish up to the call of Room.Publish
StartPublish(n) ==
  /\ Steps < lim.steps /\ n \in lim.names /\ nextPC + 1 \in PCs
  /\ getOrCreateRoom(n)
  /\ nextPC' = nextPC + 1
  /\ call' = [call EXCEPT ![nextPC + 1] = [kind |-> "pub", name |-> n, room |-> RoomOf(n), loc |-> "check", res |-> "none"]]
  /\ UNCHANGED <<lim, unitVars, roomSt, lockVars, subsGauge, pcState, gVars, fanIds, closed, recVars, attVars, cr, rl, loopVars>>

\* Manager.Subscribe up to the call of Room.Subscribe
StartSubscribe(n) ==
  /\ Steps < lim.steps /\ n \in lim.names /\ nextPC + 1 \in PCs
  /\ getOrCreateRoom(n)
  /\ nextPC' = nextPC + 1
  /\ call' = [call EXCEPT ![nextPC + 1] = [kind |-> "sub", name |-> n, room |-> RoomOf(n), loc |-> "check", res |-> "none"]]
  /\ UNCHANGED <<lim, unitVars, roomSt, lockVars, subsGauge, pcState, gVars, fanIds, closed, recVars, attVars, cr, rl, loopVars>>

(* ----- Room.Publish ----- *)

\* a Publish that never looks at the publisher slot
PublishRefused_Blind(r) == FALSE

\* the answer of the first locked section of Room.Publish
PublishRefused(r) == publisher[r] # 0

\* Room.Publish up to the wait for ICE gathering. The first locked section refuses
\* when the room has a publisher. What follows touches only the new connection:
\* PopulateFromSDP .. NewPeerConnection (an error returns, no connection built),
\* the two callbacks, SetRemoteDescription .. SetLocalDescription (an error closes
\* the connection and returns).
\* an error path that returns without closing the connection
pcAfterNegotiationError_Leaks == "open"

\* the connection after SetRemoteDescription, CreateAnswer or SetLocalDescription
\* failed: _ = pc.Close() before the error is returned
pcAfterNegotiationError == "closed"

PublishCheck(c) ==
  /\ call[c].kind = "pub" /\ call[c].loc = "check"
  /\ mu[call[c].room] = 0
  /\ IF PublishRefused(call[c].room)
       THEN /\ call' = [call EXCEPT ![c] = [@ EXCEPT !.loc = "done", !.res = "PublisherExists"]]
            /\ UNCHANGED pcState
       ELSE \E out \in {"badSDP", "failed", "ok"} :
            /\ out # "ok" => Steps < lim.steps
            /\ call' = [call EXCEPT ![c] = IF out = "ok" THEN [@ EXCEPT !.loc = "store"]
                                                          ELSE [@ EXCEPT !.loc = "done", !.res = "error"]]
            /\ pcState' = [pcState EXCEPT ![c] = CASE out = "badSDP" -> "none"
                                                   [] out = "failed" -> pcAfterNegotiationError
                                                   [] out = "ok" -> "open"]
  /\ UNCHANGED <<lim, unitVars, mgrVars, roomSt, lockVars, subsGauge, nextPC, gVars, fanIds, closed, recVars, attVars, cr, rl, loopVars>>

\* after <-g: the second locked section stores the connection
PublishStore(c) ==
  /\ call[c].kind = "pub" /\ call[c].loc = "store"
  /\ mu[call[c].room] = 0
  /\ publisher' = [publisher EXCEPT ![call[c].room] = c]
  /\ call' = [call EXCEPT ![c] = [@ EXCEPT !.loc = "done", !.res = "ok"]]
  /\ UNCHANGED <<lim, unitVars, mgrVars, trackFeeds, subs, lockVars, subsGauge, nextPC, pcState, gVars, fanIds, closed, recVars, attVars, cr, rl, loopVars>>

(* ----- trackFanout.attachToSubscriber / detachFromSubscriber ----- *)

\* the fanouts in a room's trackFeeds map
Feeds(r) == {trackFeeds[r][t] : t \in Tids} \ {0}

\* AddTrack on a closed connection fails; on an open one the library decides
MayAccept(c) == pcState[c] = "open"

\* an attach that stores an entry whether or not the library took the track
attachToSubscriber_AlwaysInserts(loc, c, accepted) == loc \cup {c}

\* f.locals after attachToSubscriber(pc): no entry when NewTrackLocalStaticRTP or AddTrack failed
attachToSubscriber(loc, c, accepted) == IF accepted THEN loc \cup {c} ELSE loc

\* a detach that leaves the entry in the map
detachFromSubscriber_Keeps(loc, c) == loc

\* f.locals after detachFromSubscriber(pc)
detachFromSubscriber(loc, c) == loc \ {c}

(* ----- Room.Subscribe ----- *)

\* a limit check that lets one subscriber too many in
SubscribeRefused_OffByOne(r) == MaxSubsPerRoom > 0 /\ Cardinality(subs[r]) > MaxSubsPerRoom

\* the answer of the limit check (skipped when MaxSubsPerRoom is 0)
SubscribeRefused(r) == MaxSubsPerRoom > 0 /\ Cardinality(subs[r]) >= MaxSubsPerRoom

\* Room.Subscribe up to its second read-locked section: the limit check, then
\* PopulateFromSDP .. NewPeerConnection (an error returns) and the ICE callback
SubscribeCheck(c) ==
  /\ call[c].kind = "sub" /\ call[c].loc = "check"
  /\ mu[call[c].room] = 0
  /\ IF SubscribeRefused(call[c].room)
       THEN /\ call' = [call EXCEPT ![c] = [@ EXCEPT !.loc = "done", !.res = "SubscriberLimit"]]
            /\ UNCHANGED pcState
       ELSE \/ /\ Steps < lim.steps
               /\ call' = [call EXCEPT ![c] = [@ EXCEPT !.loc = "done", !.res = "error"]]
               /\ UNCHANGED pcState
            \/ /\ call' = [call EXCEPT ![c] = [@ EXCEPT !.loc = "attach"]]
               /\ pcState' = [pcState EXCEPT ![c] = "open"]
  /\ UNCHANGED <<lim, unitVars, mgrVars, roomSt, lockVars, subsGauge, nextPC, gVars, fanIds, closed, recVars, attVars, cr, rl, loopVars>>

\* the read-locked loop that attaches every feed of the room to the new connection,
\* then SetRemoteDescription .. SetLocalDescription (an error closes the connection
\* and returns), up to the wait for ICE gathering
SubscribeAttach(c) ==
  /\ call[c].kind = "sub" /\ call[c].loc = "attach"
  /\ mu[call[c].room] = 0
  /\ \E A \in SUBSET Feeds(call[c].room) :
       /\ A # {} => MayAccept(c)
       /\ Steps + Cardinality(Feeds(call[c].room) \ A) <= lim.steps \/ ~MayAccept(c)
       /\ locals' = [f \in Fans |-> IF f \in Feeds(call[c].room)
                                      THEN attachToSubscriber(locals[f], c, f \in A)
                                      ELSE locals[f]]
       /\ rejected' = rejected \cup ((Feeds(call[c].room) \ A) \X {c})
       /\ drains' = drains \cup (A \X {c})
  /\ \/ /\ Steps < lim.steps
        /\ call' = [call EXCEPT ![c] = [@ EXCEPT !.loc = "done", !.res = "error"]]
        /\ pcState' = [pcState EXCEPT ![c] = pcAfterNegotiationError]
     \/ /\ call' = [call EXCEPT ![c] = [@ EXCEPT !.loc = "store"]]
        /\ UNCHANGED pcState
  /\ UNCHANGED <<lim, unitVars, mgrVars, roomSt, lockVars, subsGauge, nextPC, gVars, fanIds, closed, recVars, cr, rl, loopVars>>

\* after <-g: the write-locked registration
SubscribeStore(c) ==
  /\ call[c].kind = "sub" /\ call[c].loc = "store"
  /\ mu[call[c].room] = 0
  /\ subs' = [subs EXCEPT ![call[c].room] = @ \cup {c}]
  /\ call' = [call EXCEPT ![c] = [@ EXCEPT !.loc = "metric"]]
  /\ UNCHANGED <<lim, unitVars, mgrVars, publisher, trackFeeds, lockVars, subsGauge, nextPC, pcState, gVars, fanIds, closed, recVars, attVars, cr, rl, loopVars>>

\* metrics.IncSubscribers, after the lock is released
SubscribeMetric(c) ==
  /\ call[c].kind = "sub" /\ call[c].loc = "metric"
  /\ subsGauge' = [subsGauge EXCEPT ![roomName[call[c].room]] = @ + 1]
  /\ call' = [call EXCEPT ![c] = [@ EXCEPT !.loc = "done", !.res = "ok"]]
  /\ UNCHANGED <<lim, unitVars, mgrVars, roomSt, lockVars, nextPC, pcState, gVars, fanIds, closed, recVars, attVars, cr, rl, loopVars>>

(* ----- trackFanout.close ----- *)

\* close(), first step: the select on f.closed; TRUE when this call closes the channel
closeFlips(f) == ~closed[f]

\* close(), second step, under f.mu: the recorder is closed and its upload started
closeRec(f) ==
  IF recSet[f]
    THEN /\ recState' = [recState EXCEPT ![f] = "closed"]
         /\ recCloses' = [recCloses EXCEPT ![f] = @ + 1]
         /\ uploads' = [uploads EXCEPT ![f] = @ + 1]
         /\ recSet' = [recSet EXCEPT ![f] = FALSE]
    ELSE UNCHANGED recVars

\* a goroutine has run close(f.closed) on a channel that was closed already
Panicked == \E k \in Closers : fc[k].loc = "panic"

\* a goroutine calls f.close() on a fanout that exists
FcCall(k, f) ==
  /\ ~Panicked
  /\ fc[k].loc = "idle" /\ f <= nextFan
  /\ \A j \in Closers : j < k => fc[j].loc # "idle"
  /\ fc' = [fc EXCEPT ![k] = [loc |-> "select", f |-> f]]
  /\ UNCHANGED <<lim, iso, pli, lk, http, mgrVars, roomSt, lockVars, subsGauge, callVars, pcState, gVars, fanIds, closed, recVars, attVars, cr, rl, loopVars>>

\* close(): the select on f.closed; the call returns when the channel is closed
FcSelect(k) ==
  /\ ~Panicked
  /\ fc[k].loc = "select"
  /\ fc' = [fc EXCEPT ![k] = [@ EXCEPT !.loc = IF closeFlips(fc[k].f) THEN "flip" ELSE "done"]]
  /\ UNCHANGED <<lim, iso, pli, lk, http, mgrVars, roomSt, lockVars, subsGauge, callVars, pcState, gVars, fanIds, closed, recVars, attVars, cr, rl, loopVars>>

\* close(): the default branch, close(f.closed); closing a closed channel panics
FcFlip(k) ==
  /\ ~Panicked
  /\ fc[k].loc = "flip"
  /\ IF closed[fc[k].f]
       THEN /\ fc' = [fc EXCEPT ![k] = [@ EXCEPT !.loc = "panic"]]
            /\ UNCHANGED closed
       ELSE /\ fc' = [fc EXCEPT ![k] = [@ EXCEPT !.loc = "rec"]]
            /\ closed' = [closed EXCEPT ![fc[k].f] = TRUE]
  /\ UNCHANGED <<lim, iso, pli, lk, http, mgrVars, roomSt, lockVars, subsGauge, callVars, pcState, gVars, fanIds, recVars, attVars, cr, rl, loopVars>>

\* close(): the section under f.mu
FcRec(k) ==
  /\ ~Panicked
  /\ fc[k].loc = "rec"
  /\ closeRec(fc[k].f)
  /\ fc' = [fc EXCEPT ![k] = [@ EXCEPT !.loc = "done"]]
  /\ UNCHANGED <<lim, iso, pli, lk, http, mgrVars, roomSt, lockVars, subsGauge, callVars, pcState, gVars, fanIds, closed, attVars, cr, rl, loopVars>>

(* ----- ICE state callbacks, closePublisher, removeSubscriber ----- *)

\* the connection's ICE agent runs: the handshake of its call went through
Negotiated(c) == call[c].loc \in {"store", "metric"} \/ (call[c].loc = "done" /\ call[c].res = "ok")

\* OnICEConnectionStateChange with failed, disconnected or closed: go closePublisher / removeSubscriber
IceTerminal(c) ==
  /\ Negotiated(c)
  /\ Steps < lim.steps
  /\ iceCount' = [iceCount EXCEPT ![c] = @ + 1]
  /\ gWait' = [gWait EXCEPT ![c] = @ + 1]
  /\ UNCHANGED <<lim, unitVars, mgrVars, roomSt, lockVars, subsGauge, callVars, pcState, gClose, gDec, fanIds, closed, recVars, attVars, cr, rl, loopVars>>

\* a closePublisher that does not compare the slot with its connection
IsCurrent_Any(r, c) == TRUE

\* if r.publisher == pc
IsCurrent(r, c) == publisher[r] = c

\* closePublisher takes Room.mu; with no feed to close the locked section is one step
CpLock(c) ==
  /\ call[c].kind = "pub" /\ gWait[c] > 0
  /\ mu[call[c].room] = 0
  /\ gWait' = [gWait EXCEPT ![c] = @ - 1]
  /\ IF ~IsCurrent(call[c].room, c)
       THEN /\ gClose' = [gClose EXCEPT ![c] = @ + 1]
            /\ UNCHANGED <<roomSt, lockVars>>
       ELSE IF Feeds(call[c].room) = {}
         THEN /\ gClose' = [gClose EXCEPT ![c] = @ + 1]
              /\ publisher' = [publisher EXCEPT ![call[c].room] = 0]
              /\ UNCHANGED <<trackFeeds, subs, lockVars>>
         ELSE /\ mu' = [mu EXCEPT ![call[c].room] = c]
              /\ cpTodo' = [cpTodo EXCEPT ![call[c].room] = Feeds(call[c].room)]
              /\ UNCHANGED <<roomSt, cpCur, gClose>>
  /\ UNCHANGED <<lim, unitVars, mgrVars, subsGauge, callVars, pcState, iceCount, gDec, fanIds, closed, recVars, attVars, cr, rl, loopVars>>

\* closePublisher, in the loop over r.trackFeeds: f.close() up to its select
CpFeedFlip(r, f) ==
  /\ mu[r] # 0 /\ cpCur[r] = 0 /\ f \in cpTodo[r]
  /\ IF closeFlips(f)
       THEN /\ closed' = [closed EXCEPT ![f] = TRUE]
            /\ cpCur' = [cpCur EXCEPT ![r] = f]
            /\ UNCHANGED cpTodo
       ELSE /\ cpTodo' = [cpTodo EXCEPT ![r] = @ \ {f}]
            /\ UNCHANGED <<closed, cpCur>>
  /\ UNCHANGED <<lim, unitVars, mgrVars, roomSt, mu, subsGauge, callVars, pcState, gVars, fanIds, recVars, attVars, cr, rl, loopVars>>

\* closePublisher, in the loop over r.trackFeeds: the rest of f.close()
CpFeedRec(r) ==
  /\ mu[r] # 0 /\ cpCur[r] # 0
  /\ closeRec(cpCur[r])
  /\ cpTodo' = [cpTodo EXCEPT ![r] = @ \ {cpCur[r]}]
  /\ cpCur' = [cpCur EXCEPT ![r] = 0]
  /\ UNCHANGED <<lim, unitVars, mgrVars, roomSt, mu, subsGauge, callVars, pcState, gVars, fanIds, closed, attVars, cr, rl, loopVars>>

\* a closePublisher that leaves the closed feeds in the map
CpUnlock_KeepsFeeds(r) ==
  /\ mu[r] # 0 /\ cpCur[r] = 0 /\ cpTodo[r] = {}
  /\ publisher' = [publisher EXCEPT ![r] = 0]
  /\ mu' = [mu EXCEPT ![r] = 0]
  /\ gClose' = [gClose EXCEPT ![mu[r]] = @ + 1]
  /\ UNCHANGED <<lim, unitVars, mgrVars, trackFeeds, subs, cpTodo, cpCur, subsGauge, callVars, pcState, iceCount, gWait, gDec, fanIds, closed, recVars, attVars, cr, rl, loopVars>>

\* closePublisher after the loop: a fresh map, publisher = nil, Unlock
CpUnlock(r) ==
  /\ mu[r] # 0 /\ cpCur[r] = 0 /\ cpTodo[r] = {}
  /\ trackFeeds' = [trackFeeds EXCEPT ![r] = [t \in Tids |-> 0]]
  /\ publisher' = [publisher EXCEPT ![r] = 0]
  /\ mu' = [mu EXCEPT ![r] = 0]
  /\ gClose' = [gClose EXCEPT ![mu[r]] = @ + 1]
  /\ UNCHANGED <<lim, unitVars, mgrVars, subs, cpTodo, cpCur, subsGauge, callVars, pcState, iceCount, gWait, gDec, fanIds, closed, recVars, attVars, cr, rl, loopVars>>

\* closePublisher: pc.Close() after the lock is released
CpClose(c) ==
  /\ call[c].kind = "pub" /\ gClose[c] > 0
  /\ gClose' = [gClose EXCEPT ![c] = @ - 1]
  /\ pcState' = [pcState EXCEPT ![c] = "closed"]
  /\ UNCHANGED <<lim, unitVars, mgrVars, roomSt, lockVars, subsGauge, callVars, iceCount, gWait, gDec, fanIds, closed, recVars, attVars, cr, rl, loopVars>>

\* removeSubscriber: the locked section
RsLock(c) ==
  /\ call[c].kind = "sub" /\ gWait[c] > 0
  /\ mu[call[c].room] = 0
  /\ gWait' = [gWait EXCEPT ![c] = @ - 1]
  /\ gClose' = [gClose EXCEPT ![c] = @ + 1]
  /\ IF c \in subs[call[c].room]
       THEN /\ locals' = [f \in Fans |-> IF f \in Feeds(call[c].room)
                                           THEN detachFromSubscriber(locals[f], c)
                                           ELSE locals[f]]
            /\ subs' = [subs EXCEPT ![call[c].room] = @ \ {c}]
       ELSE UNCHANGED <<locals, subs>>
  /\ UNCHANGED <<lim, unitVars, mgrVars, publisher, trackFeeds, lockVars, subsGauge, callVars, pcState, iceCount, gDec, fanIds, closed, recVars, rejected, drains, cr, rl, loopVars>>

\* removeSubscriber: pc.Close() after the lock is released
RsClose(c) ==
  /\ call[c].kind = "sub" /\ gClose[c] > 0
  /\ gClose' = [gClose EXCEPT ![c] = @ - 1]
  /\ gDec' = [gDec EXCEPT ![c] = @ + 1]
  /\ pcState' = [pcState EXCEPT ![c] = "closed"]
  /\ UNCHANGED <<lim, unitVars, mgrVars, roomSt, lockVars, subsGauge, callVars, iceCount, gWait, fanIds, closed, recVars, attVars, cr, rl, loopVars>>

\* removeSubscriber: metrics.DecSubscribers
RsDec(c) ==
  /\ gDec[c] > 0
  /\ gDec' = [gDec EXCEPT ![c] = @ - 1]
  /\ subsGauge' = [subsGauge EXCEPT ![roomName[call[c].room]] = @ - 1]
  /\ UNCHANGED <<lim, unitVars, mgrVars, roomSt, lockVars, callVars, pcState, iceCount, gWait, gClose, fanIds, closed, recVars, attVars, cr, rl, loopVars>>

(* ----- the OnTrack callback of a publisher connection ----- *)

\* media of a track arrives only at a connection whose answer the client has:
\* Publish has returned it
Established(c) == call[c].loc = "done" /\ call[c].res = "ok"

\* newTrackFanout and the locked section: the feed is stored and attached to the
\* registered subscribers; readLoop and the PLI loop are started
OnTrackInsert(c, t) ==
  /\ call[c].kind = "pub" /\ pcState[c] = "open" /\ Established(c)
  /\ Steps < lim.steps /\ nextFan + 1 \in Fans
  /\ mu[call[c].room] = 0
  /\ nextFan' = nextFan + 1
  /\ fanPub' = [fanPub EXCEPT ![nextFan + 1] = c]
  /\ fanRoom' = [fanRoom EXCEPT ![nextFan + 1] = call[c].room]
  /\ trackFeeds' = [trackFeeds EXCEPT ![call[c].room][t] = nextFan + 1]
  /\ \E A \in SUBSET subs[call[c].room] :
       /\ \A s \in A : MayAccept(s)
       /\ Steps + 1 + Cardinality({s \in subs[call[c].room] \ A : MayAccept(s)}) <= lim.steps
          \/ A = {s \in subs[call[c].room] : MayAccept(s)}
       /\ locals' = [locals EXCEPT ![nextFan + 1] =
              UNION {attachToSubscriber({}, s, s \in A) : s \in subs[call[c].room]}]
       /\ rejected' = rejected \cup ({nextFan + 1} \X (subs[call[c].room] \ A))
       /\ drains' = drains \cup ({nextFan + 1} \X A)
  /\ \E w \in {"rec", "done"} :
       /\ ot' = [ot EXCEPT ![nextFan + 1] = w]
  /\ UNCHANGED <<lim, fc, iso, lk, http, mgrVars, publisher, subs, lockVars, subsGauge, callVars, pcState, gVars, closed, recVars, cr, loopVars>>
  /\ rl' = [rl EXCEPT ![nextFan + 1] = "top"]
  /\ pli' = [pli EXCEPT ![nextFan + 1] = [NoPli EXCEPT !.loc = "run"]]

\* the PLI goroutine at a tick of its 2-second ticker: it reads r.publisher under the
\* read lock, returns when the slot is empty, else writes one PLI with the SSRC of its
\* track to the connection it found there
PliTick(f) ==
  /\ pli[f].loc = "run" /\ pli[f].ticks < MaxTicks
  /\ mu[fanRoom[f]] = 0
  /\ pli' = [pli EXCEPT ![f] = IF publisher[fanRoom[f]] = 0
                                   THEN [@ EXCEPT !.loc = "done", !.ticks = @ + 1]
                                   ELSE [@ EXCEPT !.ticks = @ + 1, !.n = @ + 1, !.to = publisher[fanRoom[f]]]]
  /\ UNCHANGED <<lim, fc, iso, lk, http, mgrVars, roomSt, lockVars, subsGauge, callVars, pcState, gVars, fanIds, closed, recVars, attVars, cr, rl, loopVars>>

\* the same goroutine at a later tick, past the ticks that are counted
PliAgain(f) ==
  /\ pli[f].loc = "run" /\ pli[f].ticks = MaxTicks
  /\ mu[fanRoom[f]] = 0
  /\ pli' = [pli EXCEPT ![f] = IF publisher[fanRoom[f]] = 0
                                   THEN [@ EXCEPT !.loc = "done"]
                                   ELSE [@ EXCEPT !.to = publisher[fanRoom[f]]]]
  /\ UNCHANGED <<lim, fc, iso, lk, http, mgrVars, roomSt, lockVars, subsGauge, callVars, pcState, gVars, fanIds, closed, recVars, attVars, cr, rl, loopVars>>

\* the end of the callback: oggwriter.New / ivfwriter.New worked, feed.setRecorder
setRecorder(f) ==
  /\ ot[f] = "rec"
  /\ ot' = [ot EXCEPT ![f] = "done"]
  /\ recSet' = [recSet EXCEPT ![f] = TRUE]
  /\ recState' = [recState EXCEPT ![f] = "open"]
  /\ UNCHANGED <<lim, unitVars, mgrVars, roomSt, lockVars, subsGauge, callVars, pcState, gVars, nextFan, fanPub, fanRoom, closed, recCloses, uploads, attVars, cr, rl, loopVars>>

(* ----- Manager.CloseRoom and Room.Close ----- *)

\* a CloseRoom that forgets the delete
CloseRoomRemoves_Keeps(n) == rooms

\* the rooms map after delete(m.rooms, name)
CloseRoomRemoves(n) == [rooms EXCEPT ![n] = 0]

\* CloseRoom: the section under Manager.mu
CloseRoomLock(k, n) ==
  /\ Steps < lim.steps /\ n \in lim.names /\ cr[k].loc = "idle"
  /\ \A j \in Closers : j < k => cr[j].loc # "idle"
  /\ rooms' = CloseRoomRemoves(n)
  /\ cr' = [cr EXCEPT ![k] = [NoCloser EXCEPT !.kind = "room", !.name = n, !.room = rooms[n], !.ok = rooms[n] # 0,
                                               !.n = Cardinality(Registered \ {n}),
                                               !.took = {rooms[n]} \ {0},
                                               !.loc = IF rooms[n] # 0 THEN "close" ELSE "done"]]
  /\ UNCHANGED <<lim, unitVars, nextRoom, roomName, roomsGauge, roomSt, lockVars, subsGauge, callVars, pcState, gVars, fanIds, closed, recVars, attVars, rl, loopVars>>

\* a Room.Close that clears publisher and tracks and leaves the subscribers in place
RoomCloseSnap_KeepsSubs(k) ==
  /\ cr[k].loc = "close"
  /\ mu[cr[k].room] = 0
  /\ cr' = [cr EXCEPT ![k] = [@ EXCEPT !.pub = publisher[cr[k].room], !.feeds = Feeds(cr[k].room),
                                        !.subs = subs[cr[k].room], !.shut = @ \cup {cr[k].room},
                                        !.loc = IF publisher[cr[k].room] # 0 THEN "pub" ELSE "rest"]]
  /\ publisher' = [publisher EXCEPT ![cr[k].room] = 0]
  /\ trackFeeds' = [trackFeeds EXCEPT ![cr[k].room] = [t \in Tids |-> 0]]
  /\ UNCHANGED <<lim, unitVars, mgrVars, subs, lockVars, subsGauge, callVars, pcState, gVars, fanIds, closed, recVars, attVars, rl, loopVars>>

\* Room.Close: the locked snapshot-and-clear
RoomCloseSnap(k) ==
  /\ cr[k].loc = "close"
  /\ mu[cr[k].room] = 0
  /\ cr' = [cr EXCEPT ![k] = [@ EXCEPT !.pub = publisher[cr[k].room], !.feeds = Feeds(cr[k].room),
                                        !.subs = subs[cr[k].room], !.shut = @ \cup {cr[k].room},
                                        !.loc = IF publisher[cr[k].room] # 0 THEN "pub" ELSE "rest"]]
  /\ publisher' = [publisher EXCEPT ![cr[k].room] = 0]
  /\ trackFeeds' = [trackFeeds EXCEPT ![cr[k].room] = [t \in Tids |-> 0]]
  /\ subs' = [subs EXCEPT ![cr[k].room] = {}]
  /\ UNCHANGED <<lim, unitVars, mgrVars, lockVars, subsGauge, callVars, pcState, gVars, fanIds, closed, recVars, attVars, rl, loopVars>>

\* Room.Close: pub.Close()
RoomClosePub(k) ==
  /\ cr[k].loc = "pub"
  /\ pcState' = [pcState EXCEPT ![cr[k].pub] = "closed"]
  /\ cr' = [cr EXCEPT ![k] = [@ EXCEPT !.loc = "rest"]]
  /\ UNCHANGED <<lim, unitVars, mgrVars, roomSt, lockVars, subsGauge, callVars, gVars, fanIds, closed, recVars, attVars, rl, loopVars>>

\* Room.Close, in the loop over the snapshot of feeds: f.close() up to its select
RoomCloseFeedFlip(k, f) ==
  /\ cr[k].loc = "rest" /\ cr[k].cur = 0 /\ f \in cr[k].feeds
  /\ IF closeFlips(f)
       THEN /\ closed' = [closed EXCEPT ![f] = TRUE]
            /\ cr' = [cr EXCEPT ![k] = [@ EXCEPT !.cur = f]]
       ELSE /\ cr' = [cr EXCEPT ![k] = [@ EXCEPT !.feeds = @ \ {f}]]
            /\ UNCHANGED closed
  /\ UNCHANGED <<lim, unitVars, mgrVars, roomSt, lockVars, subsGauge, callVars, pcState, gVars, fanIds, recVars, attVars, rl, loopVars>>

\* Room.Close, in the loop over the snapshot of feeds: the rest of f.close()
RoomCloseFeedRec(k) ==
  /\ cr[k].loc = "rest" /\ cr[k].cur # 0
  /\ closeRec(cr[k].cur)
  /\ cr' = [cr EXCEPT ![k] = [@ EXCEPT !.feeds = @ \ {cr[k].cur}, !.cur = 0]]
  /\ UNCHANGED <<lim, unitVars, mgrVars, roomSt, lockVars, subsGauge, callVars, pcState, gVars, fanIds, closed, attVars, rl, loopVars>>

\* Room.Close, in the loop over the snapshot of subscribers: s.Close()
RoomCloseSub(k, s) ==
  /\ cr[k].loc = "rest" /\ cr[k].cur = 0 /\ cr[k].feeds = {} /\ s \in cr[k].subs
  /\ pcState' = [pcState EXCEPT ![s] = "closed"]
  /\ cr' = [cr EXCEPT ![k] = [@ EXCEPT !.subs = @ \ {s}]]
  /\ UNCHANGED <<lim, unitVars, mgrVars, roomSt, lockVars, subsGauge, callVars, gVars, fanIds, closed, recVars, attVars, rl, loopVars>>

\* CloseRoom after r.Close(): metrics.SetRooms(n), return true
CloseRoomMetric(k) ==
  /\ cr[k].kind = "room"
  /\ cr[k].loc = "rest" /\ cr[k].cur = 0 /\ cr[k].feeds = {} /\ cr[k].subs = {}
  /\ roomsGauge' = cr[k].n
  /\ cr' = [cr EXCEPT ![k] = [@ EXCEPT !.loc = "done"]]
  /\ UNCHANGED <<lim, unitVars, rooms, nextRoom, roomName, roomSt, lockVars, subsGauge, callVars, pcState, gVars, fanIds, closed, recVars, attVars, rl, loopVars>>

(* ----- Manager.CloseAll ----- *)

\* a swap that leaves the entries in the map
CloseAllSwap_Keeps == rooms

\* m.rooms = make(map[string]*Room)
CloseAllSwap == [n \in Names |-> 0]

\* CloseAll: the section under Manager.mu collects the rooms and swaps the map;
\* the loop that follows starts with one of the collected rooms
CloseAllLock(k) ==
  /\ Steps < lim.steps /\ cr[k].loc = "idle"
  /\ \A j \in Closers : j < k => cr[j].loc # "idle"
  /\ rooms' = CloseAllSwap
  /\ LET took == {rooms[n] : n \in Registered} IN
       IF took = {}
         THEN cr' = [cr EXCEPT ![k] = [NoCloser EXCEPT !.kind = "all", !.loc = "rest"]]
         ELSE \E r \in took :
                cr' = [cr EXCEPT ![k] = [NoCloser EXCEPT !.kind = "all", !.took = took, !.todo = took \ {r},
                                                         !.room = r, !.loc = "close"]]
  /\ UNCHANGED <<lim, unitVars, nextRoom, roomName, roomsGauge, roomSt, lockVars, subsGauge, callVars, pcState, gVars, fanIds, closed, recVars, attVars, rl, loopVars>>

\* CloseAll: r.Close() has returned, the loop goes on to the next room
CloseAllNext(k) ==
  /\ cr[k].kind = "all"
  /\ cr[k].loc = "rest" /\ cr[k].cur = 0 /\ cr[k].feeds = {} /\ cr[k].subs = {}
  /\ \E r \in cr[k].todo :
       cr' = [cr EXCEPT ![k] = [@ EXCEPT !.room = r, !.todo = @ \ {r}, !.loc = "close"]]
  /\ UNCHANGED <<lim, unitVars, mgrVars, roomSt, lockVars, subsGauge, callVars, pcState, gVars, fanIds, closed, recVars, attVars, rl, loopVars>>

\* CloseAll after the loop: metrics.SetRooms(0)
CloseAllMetric(k) ==
  /\ cr[k].kind = "all"
  /\ cr[k].loc = "rest" /\ cr[k].cur = 0 /\ cr[k].feeds = {} /\ cr[k].subs = {} /\ cr[k].todo = {}
  /\ roomsGauge' = 0
  /\ cr' = [cr EXCEPT ![k] = [@ EXCEPT !.loc = "done"]]
  /\ UNCHANGED <<lim, unitVars, rooms, nextRoom, roomName, roomSt, lockVars, subsGauge, callVars, pcState, gVars, fanIds, closed, recVars, attVars, rl, loopVars>>

(* ----- trackFanout.readLoop ----- *)

\* the rtp.Packet that pkt.Unmarshal builds from the bytes read
parsed(p) == [seq |-> p.seq, ts |-> p.ts, payload |-> p.payload]

\* clone := *pkt, with a copy of the payload bytes
clonePacket(p) == [seq |-> p.seq, ts |-> p.ts, payload |-> [i \in 1..Len(p.payload) |-> p.payload[i]]]

\* a loop over f.locals that stops after its first entry
fanOut_FirstOnly(f) ==
  [s \in PCs |-> IF s \in locals[f] /\ \A o \in locals[f] : s <= o
                   THEN Append(delivered[f][s], clonePacket(parsed(pkt[f])))
                   ELSE delivered[f][s]]

\* the read-locked loop over f.locals: one WriteRTP of a clone per entry
fanOut(f) ==
  [s \in PCs |-> IF s \in locals[f] THEN Append(delivered[f][s], clonePacket(parsed(pkt[f])))
                                    ELSE delivered[f][s]]

\* the select at the top of the loop: return once f.closed is closed
RlSelect(f) ==
  /\ rl[f] = "top"
  /\ rl' = [rl EXCEPT ![f] = IF closed[f] THEN "done" ELSE "read"]
  /\ UNCHANGED <<lim, unitVars, mgrVars, roomSt, lockVars, subsGauge, callVars, pcState, gVars, fanIds, closed, recVars, attVars, cr, loopVars>>

\* a Read that stays blocked when the connection is closed
readFails_Never(f) == FALSE

\* f.remote.Read on a closed connection returns an error
readFails(f) == pcState[fanPub[f]] = "closed"

\* f.remote.Read returns: an error once the publisher's connection is closed, else a packet
RlRead(f) ==
  /\ rl[f] = "read"
  /\ \/ /\ readFails(f)
        /\ rl' = [rl EXCEPT ![f] = "done"]
        /\ UNCHANGED <<pkt, nread>>
     \/ /\ pcState[fanPub[f]] = "open"
        /\ nread[f] < lim.pkts
        /\ \E p \in PacketsIn :
             pkt' = [pkt EXCEPT ![f] = [seq |-> nread[f] + 1, n |-> p.n, ok |-> p.ok, ts |-> p.ts, payload |-> p.payload]]
        /\ nread' = [nread EXCEPT ![f] = @ + 1]
        /\ rl' = [rl EXCEPT ![f] = "count"]
  /\ UNCHANGED <<lim, unitVars, mgrVars, roomSt, lockVars, subsGauge, callVars, pcState, gVars, fanIds, closed, recVars, attVars, cr, rlRec, delivered, recWrites, rtpBytes, rtpPackets>>

\* a loop that goes on with a packet that did not parse
afterUnmarshal_Forwards(p) == "rec"

\* if err := pkt.Unmarshal(buf[:n]); err != nil { continue }
afterUnmarshal(p) == IF p.ok THEN "rec" ELSE "top"

\* metrics.AddBytes, metrics.IncPackets, pkt.Unmarshal: a packet that does not parse is skipped
RlCount(f) ==
  /\ rl[f] = "count"
  /\ rtpBytes' = [rtpBytes EXCEPT ![roomName[fanRoom[f]]] = @ + pkt[f].n]
  /\ rtpPackets' = [rtpPackets EXCEPT ![roomName[fanRoom[f]]] = @ + 1]
  /\ rl' = [rl EXCEPT ![f] = afterUnmarshal(pkt[f])]
  /\ UNCHANGED <<lim, unitVars, mgrVars, roomSt, lockVars, subsGauge, callVars, pcState, gVars, fanIds, closed, recVars, attVars, cr, pkt, rlRec, nread, delivered, recWrites>>

\* rec := f.rec under the read lock
RlRecLoad(f) ==
  /\ rl[f] = "rec"
  /\ rlRec' = [rlRec EXCEPT ![f] = recSet[f]]
  /\ rl' = [rl EXCEPT ![f] = IF recSet[f] THEN "write" ELSE "fan"]
  /\ UNCHANGED <<lim, unitVars, mgrVars, roomSt, lockVars, subsGauge, callVars, pcState, gVars, fanIds, closed, recVars, attVars, cr, pkt, nread, delivered, recWrites, rtpBytes, rtpPackets>>

\* rec.WriteRTP(pkt), outside the lock
RlRecWrite(f) ==
  /\ rl[f] = "write"
  /\ recWrites' = [recWrites EXCEPT ![f] = @ + 1]
  /\ rl' = [rl EXCEPT ![f] = "fan"]
  /\ UNCHANGED <<lim, unitVars, mgrVars, roomSt, lockVars, subsGauge, callVars, pcState, gVars, fanIds, closed, recVars, attVars, cr, pkt, rlRec, nread, delivered, rtpBytes, rtpPackets>>

\* the read-locked loop over f.locals, then back to the top
RlFan(f) ==
  /\ rl[f] = "fan"
  /\ delivered' = [delivered EXCEPT ![f] = fanOut(f)]
  /\ rl' = [rl EXCEPT ![f] = "top"]
  /\ UNCHANGED <<lim, unitVars, mgrVars, roomSt, lockVars, subsGauge, callVars, pcState, gVars, fanIds, closed, recVars, attVars, cr, pkt, rlRec, nread, recWrites, rtpBytes, rtpPackets>>

(* ----- the fan-out loop on packets with their slices ----- *)

\* the packet with the contents its slices have in heap h
Deep(p, h) == [seq |-> p.seq, ts |-> p.ts,
               csrc |-> IF p.csrc = 0 THEN <<>> ELSE h[p.csrc],
               payload |-> IF p.payload = 0 THEN <<>> ELSE h[p.payload]]

\* clone := *pkt copies the struct, so the slices in the header still point to the
\* arrays of pkt; a non-nil payload is re-pointed to a new array
cloneStruct(p, h) == [p EXCEPT !.payload = IF p.payload # 0 THEN Len(h) + 1 ELSE 0]

\* append([]byte(nil), pkt.Payload...): the new array with the payload bytes
cloneHeap(p, h) == IF p.payload # 0 THEN Append(h, h[p.payload]) ELSE h

\* one iteration of the loop over f.locals: the clone is handed to local.WriteRTP
IsoClone(s) ==
  /\ s \notin iso.to
  /\ iso' = [iso EXCEPT !.heap = cloneHeap(iso.src, iso.heap),
                         !.to = @ \cup {s},
                         !.out[s] = cloneStruct(iso.src, iso.heap),
                         !.sent[s] = Deep(cloneStruct(iso.src, iso.heap), cloneHeap(iso.src, iso.heap))]
  /\ UNCHANGED <<lim, fc, pli, lk, http, mgrVars, roomSt, lockVars, subsGauge, callVars, pcState, gVars, fanIds, closed, recVars, attVars, cr, rl, loopVars>>

\* whoever holds the packet handed to subscriber s writes to it: to a scalar header
\* field of the struct, to a payload byte, or to an entry of the CSRC list
IsoMutate(s, what) ==
  /\ s \in iso.to
  /\ CASE what = "ts" ->
             iso' = [iso EXCEPT !.out[s].ts = 0, !.touched = @ \cup {s}]
        [] what = "payload" ->
             /\ iso.out[s].payload # 0
             /\ iso' = [iso EXCEPT !.heap[iso.out[s].payload][1] = 0, !.touched = @ \cup {s}]
        [] what = "csrc" ->
             /\ iso.out[s].csrc # 0
             /\ iso' = [iso EXCEPT !.heap[iso.out[s].csrc][1] = 0, !.touched = @ \cup {s}]
  /\ UNCHANGED <<lim, fc, pli, lk, http, mgrVars, roomSt, lockVars, subsGauge, callVars, pcState, gVars, fanIds, closed, recVars, attVars, cr, rl, loopVars>>

\* the packets pkt.Unmarshal can have built: array 1 holds the CSRC list, array 2 the
\* payload bytes (a part of the read buffer); either slice may be nil
IsoPackets ==
  {[heap |-> <<c, b>>, src |-> [seq |-> 1, ts |-> t, csrc |-> rc, payload |-> rp]] :
     c \in {<<9>>}, b \in {<<5>>, <<5, 6>>}, t \in {7, 8}, rc \in {0, 1}, rp \in {0, 2}}

InitIso ==
  /\ lim = [steps |-> 0, names |-> {}, pkts |-> 0]
  /\ Fresh
  /\ \E p \in IsoPackets :
       iso = [NoIso EXCEPT !.heap = p.heap, !.src = p.src, !.srcVal = Deep(p.src, p.heap)]

NextIso ==
  \/ \E s \in PCs : IsoClone(s)
  \/ \E s \in PCs, what \in {"ts", "payload", "csrc"} : IsoMutate(s, what)

SpecIso == InitIso /\ [][NextIso]_vars

(* ----- the specification of the Manager and its rooms ----- *)

Next ==
  \/ \E n \in Names : StartPublish(n)
  \/ \E n \in Names : StartSubscribe(n)
  \/ \E c \in PCs : PublishCheck(c)
  \/ \E c \in PCs : PublishStore(c)
  \/ \E c \in PCs : SubscribeCheck(c)
  \/ \E c \in PCs : SubscribeAttach(c)
  \/ \E c \in PCs : SubscribeStore(c)
  \/ \E c \in PCs : SubscribeMetric(c)
  \/ \E c \in PCs : IceTerminal(c)
  \/ \E c \in PCs : CpLock(c)
  \/ \E r \in RoomIds, f \in Fans : CpFeedFlip(r, f)
  \/ \E r \in RoomIds : CpFeedRec(r)
  \/ \E r \in RoomIds : CpUnlock(r)
  \/ \E c \in PCs : CpClose(c)
  \/ \E c \in PCs : RsLock(c)
  \/ \E c \in PCs : RsClose(c)
  \/ \E c \in PCs : RsDec(c)
  \/ \E c \in PCs, t \in Tids : OnTrackInsert(c, t)
  \/ \E f \in Fans : setRecorder(f)
  \/ \E f \in Fans : PliTick(f)
  \/ \E k \in Closers, n \in Names : CloseRoomLock(k, n)
  \/ \E k \in Closers : RoomCloseSnap(k)
  \/ \E k \in Closers : RoomClosePub(k)
  \/ \E k \in Closers, f \in Fans : RoomCloseFeedFlip(k, f)
  \/ \E k \in Closers : RoomCloseFeedRec(k)
  \/ \E k \in Closers, s \in PCs : RoomCloseSub(k, s)
  \/ \E k \in Closers : CloseRoomMetric(k)
  \/ \E k \in Closers : CloseAllLock(k)
  \/ \E k \in Closers : CloseAllMetric(k)

Spec == Init /\ [][Next]_vars

\* the steps that goroutines of the program take by themselves once they are started;
\* the rest of Next (new calls, ICE state changes, tracks, ticks) is up to the outside
Running ==
  \/ \E c \in PCs : PublishCheck(c)
  \/ \E c \in PCs : PublishStore(c)
  \/ \E c \in PCs : SubscribeCheck(c)
  \/ \E c \in PCs : SubscribeAttach(c)
  \/ \E c \in PCs : SubscribeStore(c)
  \/ \E c \in PCs : SubscribeMetric(c)
  \/ \E c \in PCs : CpLock(c)
  \/ \E r \in RoomIds, f \in Fans : CpFeedFlip(r, f)
  \/ \E r \in RoomIds : CpFeedRec(r)
  \/ \E r \in RoomIds : CpUnlock(r)
  \/ \E c \in PCs : CpClose(c)
  \/ \E c \in PCs : RsLock(c)
  \/ \E c \in PCs : RsClose(c)
  \/ \E c \in PCs : RsDec(c)
  \/ \E f \in Fans : setRecorder(f)
  \/ \E k \in Closers : RoomCloseSnap(k)
  \/ \E k \in Closers : RoomClosePub(k)
  \/ \E k \in Closers, f \in Fans : RoomCloseFeedFlip(k, f)
  \/ \E k \in Closers : RoomCloseFeedRec(k)
  \/ \E k \in Closers, s \in PCs : RoomCloseSub(k, s)
  \/ \E k \in Closers : CloseRoomMetric(k)
  \/ \E k \in Closers : CloseAllMetric(k)

\* the Go scheduler lets every runnable goroutine run
SpecLive == Init /\ [][Next]_vars /\ WF_vars(Running)

(* ----- the specification of one fanout at work ----- *)

\* A room in service: Publish of connection 1 has returned, subscriber 2 is registered,
\* the publisher's track has arrived (fanout 1, attached to 2, its recorder not yet
\* installed), and the Subscribe of connection 3 is before its attach loop.
FanState ==
  /\ fc = [k \in Closers |-> NoFc]
  /\ lk = [t \in Threads |-> NoThread]
  /\ http = NoHttp
  /\ iso = NoIso
  /\ pli = [f \in Fans |-> IF f = 1 THEN [NoPli EXCEPT !.loc = "run"] ELSE NoPli]
  /\ rooms = [n \in Names |-> IF n = "demo" THEN 1 ELSE 0]
  /\ nextRoom = 1
  /\ roomName = [r \in RoomIds |-> "demo"]
  /\ roomsGauge = 1
  /\ mu = [r \in RoomIds |-> 0]
  /\ publisher = [r \in RoomIds |-> IF r = 1 THEN 1 ELSE 0]
  /\ trackFeeds = [r \in RoomIds |-> [t \in Tids |-> IF r = 1 /\ t = "audio" THEN 1 ELSE 0]]
  /\ subs = [r \in RoomIds |-> IF r = 1 THEN {2} ELSE {}]
  /\ subsGauge = [n \in Names |-> IF n = "demo" THEN 1 ELSE 0]
  /\ nextPC = 3
  /\ call = [c \in PCs |-> CASE c = 1 -> [kind |-> "pub", name |-> "demo", room |-> 1, loc |-> "done", res |-> "ok"]
                             [] c = 2 -> [kind |-> "sub", name |-> "demo", room |-> 1, loc |-> "done", res |-> "ok"]
                             [] c = 3 -> [kind |-> "sub", name |-> "demo", room |-> 1, loc |-> "attach", res |-> "none"]
                             [] OTHER -> NoCall]
  /\ pcState = [c \in PCs |-> IF c <= 3 THEN "open" ELSE "none"]
  /\ iceCount = [c \in PCs |-> 0]
  /\ gWait = [c \in PCs |-> 0]
  /\ gClose = [c \in PCs |-> 0]
  /\ gDec = [c \in PCs |-> 0]
  /\ cpTodo = [r \in RoomIds |-> {}]
  /\ cpCur = [r \in RoomIds |-> 0]
  /\ nextFan = 1
  /\ fanPub = [f \in Fans |-> IF f = 1 THEN 1 ELSE 0]
  /\ fanRoom = [f \in Fans |-> IF f = 1 THEN 1 ELSE 0]
  /\ closed = [f \in Fans |-> FALSE]
  /\ recSet = [f \in Fans |-> FALSE]
  /\ recState = [f \in Fans |-> "none"]
  /\ recCloses = [f \in Fans |-> 0]
  /\ uploads = [f \in Fans |-> 0]
  /\ locals = [f \in Fans |-> IF f = 1 THEN {2} ELSE {}]
  /\ rejected = {}
  /\ drains = {<<1, 2>>}
  /\ ot = [f \in Fans |-> IF f = 1 THEN "rec" ELSE "none"]
  /\ cr = [k \in Closers |-> NoCloser]
  /\ rl = [f \in Fans |-> IF f = 1 THEN "top" ELSE "off"]
  /\ pkt = [f \in Fans |-> NoPkt]
  /\ rlRec = [f \in Fans |-> FALSE]
  /\ nread = [f \in Fans |-> 0]
  /\ delivered = [f \in Fans |-> [c \in PCs |-> <<>>]]
  /\ recWrites = [f \in Fans |-> 0]
  /\ rtpBytes = [n \in Names |-> 0]
  /\ rtpPackets = [n \in Names |-> 0]

\* the room in service, with the events and packets of the fanout still to come
InitFan ==
  /\ FanState
  /\ lim = [steps |-> Steps + FanEvents, names |-> {"demo"}, pkts |-> FanPackets]

NextFan ==
  \/ \E f \in Fans : RlSelect(f)
  \/ \E f \in Fans : RlRead(f)
  \/ \E f \in Fans : RlCount(f)
  \/ \E f \in Fans : RlRecLoad(f)
  \/ \E f \in Fans : RlRecWrite(f)
  \/ \E f \in Fans : RlFan(f)
  \/ \E f \in Fans : setRecorder(f)
  \/ \E c \in PCs : SubscribeAttach(c)
  \/ \E c \in PCs : SubscribeStore(c)
  \/ \E c \in PCs : SubscribeMetric(c)
  \/ \E c \in PCs : IceTerminal(c)
  \/ \E c \in PCs : CpLock(c)
  \/ \E r \in RoomIds, f \in Fans : CpFeedFlip(r, f)
  \/ \E r \in RoomIds : CpFeedRec(r)
  \/ \E r \in RoomIds : CpUnlock(r)
  \/ \E c \in PCs : CpClose(c)
  \/ \E c \in PCs : RsLock(c)
  \/ \E c \in PCs : RsClose(c)
  \/ \E c \in PCs : RsDec(c)

SpecFan == InitFan /\ [][NextFan]_vars

(* ----- the specification of the attachments in a room with two tracks ----- *)

\* the room in service; a second track of the publisher is still to come
InitAttach ==
  /\ FanState
  /\ lim = [steps |-> Steps + FanEvents + 1, names |-> {"demo"}, pkts |-> 0]

NextAttach ==
  \/ \E c \in PCs, t \in Tids : OnTrackInsert(c, t)
  \/ \E f \in Fans : setRecorder(f)
  \/ \E c \in PCs : SubscribeAttach(c)
  \/ \E c \in PCs : SubscribeStore(c)
  \/ \E c \in PCs : SubscribeMetric(c)
  \/ \E c \in PCs : IceTerminal(c)
  \/ \E c \in PCs : CpLock(c)
  \/ \E r \in RoomIds, f \in Fans : CpFeedFlip(r, f)
  \/ \E r \in RoomIds : CpFeedRec(r)
  \/ \E r \in RoomIds : CpUnlock(r)
  \/ \E c \in PCs : CpClose(c)
  \/ \E c \in PCs : RsLock(c)
  \/ \E c \in PCs : RsClose(c)
  \/ \E c \in PCs : RsDec(c)

SpecAttach == InitAttach /\ [][NextAttach]_vars

(* ----- the specification of the PLI goroutines over the life of two publishers ----- *)

InitPli ==
  /\ lim = [steps |-> MaxSteps + 1, names |-> {"demo"}, pkts |-> 0]
  /\ iso = NoIso
  /\ Fresh

\* what the goroutines of closePublisher and Publish do by themselves
RunningPli ==
  \/ \E c \in PCs : PublishCheck(c)
  \/ \E c \in PCs : PublishStore(c)
  \/ \E c \in PCs : CpLock(c)
  \/ \E r \in RoomIds, f \in Fans : CpFeedFlip(r, f)
  \/ \E r \in RoomIds : CpFeedRec(r)
  \/ \E r \in RoomIds : CpUnlock(r)
  \/ \E c \in PCs : CpClose(c)

\* the ticker of a PLI goroutine fires every 2 seconds
Ticking == \E f \in Fans : PliTick(f) \/ PliAgain(f)

NextPli ==
  \/ \E n \in Names : StartPublish(n)
  \/ \E c \in PCs, t \in Tids : OnTrackInsert(c, t)
  \/ \E c \in PCs : IceTerminal(c)
  \/ \E f \in Fans : PliTick(f)
  \/ \E f \in Fans : PliAgain(f)
  \/ RunningPli

SpecPli == InitPli /\ [][NextPli]_vars /\ WF_vars(RunningPli) /\ WF_vars(Ticking)

(* ----- the specification of one fanout at work until it is shut down ----- *)

\* the step of the readLoop goroutine of fanout f
ReadLoopStep(f) ==
  RlSelect(f) \/ RlRead(f) \/ RlCount(f) \/ RlRecLoad(f) \/ RlRecWrite(f) \/ RlFan(f)

InitStop == InitFan

NextStop ==
  \/ \E f \in Fans : ReadLoopStep(f)
  \/ \E f \in Fans : setRecorder(f)
  \/ \E c \in PCs : IceTerminal(c) /\ call[c].kind = "pub"
  \/ \E c \in PCs : CpLock(c)
  \/ \E r \in RoomIds, f \in Fans : CpFeedFlip(r, f)
  \/ \E r \in RoomIds : CpFeedRec(r)
  \/ \E r \in RoomIds : CpUnlock(r)
  \/ \E c \in PCs : CpClose(c)
  \/ \E k \in Closers, n \in Names : CloseRoomLock(k, n)
  \/ \E k \in Closers : RoomCloseSnap(k)
  \/ \E k \in Closers : RoomClosePub(k)
  \/ \E k \in Closers, f \in Fans : RoomCloseFeedFlip(k, f)
  \/ \E k \in Closers : RoomCloseFeedRec(k)
  \/ \E k \in Closers, c \in PCs : RoomCloseSub(k, c)
  \/ \E k \in Closers : CloseRoomMetric(k)
  \/ \E k \in Closers : CloseAllLock(k)
  \/ \E k \in Closers : CloseAllMetric(k)

\* the Go scheduler lets the readLoop goroutine of every fanout run
SpecStop == InitStop /\ [][NextStop]_vars /\ \A f \in Fans : WF_vars(ReadLoopStep(f))

(* ----- the specification of close() under several callers ----- *)

\* a publisher and its track, as the program makes them
InitClose ==
  /\ lim = [steps |-> FanEvents + 1, names |-> {"demo"}, pkts |-> 0]
  /\ iso = NoIso
  /\ Fresh

NextClose ==
  \/ \E n \in Names : StartPublish(n)
  \/ \E c \in PCs : PublishCheck(c)
  \/ \E c \in PCs : PublishStore(c)
  \/ \E c \in PCs, t \in Tids : OnTrackInsert(c, t)
  \/ \E f \in Fans : setRecorder(f)
  \/ \E k \in Closers, f \in Fans : FcCall(k, f)
  \/ \E k \in Closers : FcSelect(k)
  \/ \E k \in Closers : FcFlip(k)
  \/ \E k \in Closers : FcRec(k)

SpecClose == InitClose /\ [][NextClose]_vars

(* ----- the specification of the Manager with several room names ----- *)

InitMgr ==
  /\ lim = [steps |-> MaxSteps, names |-> Names, pkts |-> 0]
  /\ iso = NoIso
  /\ Fresh

NextMgr ==
  \/ \E n \in Names : StartPublish(n)
  \/ \E n \in Names : StartSubscribe(n)
  \/ \E c \in PCs : PublishCheck(c)
  \/ \E c \in PCs : PublishStore(c)
  \/ \E c \in PCs : SubscribeCheck(c)
  \/ \E c \in PCs : SubscribeAttach(c)
  \/ \E c \in PCs : SubscribeStore(c)
  \/ \E c \in PCs : SubscribeMetric(c)
  \/ \E k \in Closers, n \in Names : CloseRoomLock(k, n)
  \/ \E k \in Closers : RoomCloseSnap(k)
  \/ \E k \in Closers : RoomClosePub(k)
  \/ \E k \in Closers, s \in PCs : RoomCloseSub(k, s)
  \/ \E k \in Closers : CloseRoomMetric(k)
  \/ \E k \in Closers : CloseAllLock(k)
  \/ \E k \in Closers : CloseAllNext(k)
  \/ \E k \in Closers : CloseAllMetric(k)

SpecMgr == InitMgr /\ [][NextMgr]_vars

(* ----- what ListRooms reports ----- *)

\* Room.stats: the RoomInfo snapshot of a room
stats(r) == [Name |-> roomName[r], HasPublisher |-> publisher[r] # 0,
             Tracks |-> Cardinality(Feeds(r)), Subscribers |-> Cardinality(subs[r])]

\* Manager.ListRooms, as the set of the snapshots (their order is unspecified)
ListRooms == {stats(rooms[n]) : n \in Registered}

(* ----- the locks: Manager.mu, Room.mu, trackFanout.mu ----- *)

\* What each function does with the locks, in program order, for one Manager ("M"),
\* one of its rooms ("R") and one fanout of that room ("F"): Lock/Unlock, RLock/RUnlock,
\* the points where the thread is suspended ("wait"), the entry of Room.Close
\* ("enter") and the end of a loop body ("loop").

\* getOrCreateRoom: m.mu.Lock(), defer m.mu.Unlock()
getOrCreateRoomLocks == << <<"lock", "M">>, <<"unlock", "M">> >>

\* Room.Publish: the locked check, <-g, the locked store
RoomPublishLocks ==
  << <<"lock", "R">>, <<"unlock", "R">>, <<"wait", "gather">>, <<"lock", "R">>, <<"unlock", "R">> >>

\* attachToSubscriber: f.locals[pc] = local under f.mu
attachLocks == << <<"lock", "F">>, <<"unlock", "F">> >>

\* detachFromSubscriber: delete(f.locals, pc) under f.mu
detachLocks == << <<"lock", "F">>, <<"unlock", "F">> >>

\* trackFanout.close: the recorder is closed under f.mu
closeLocks == << <<"lock", "F">>, <<"unlock", "F">> >>

\* setRecorder: f.rec = w under f.mu
setRecorderLocks == << <<"lock", "F">>, <<"unlock", "F">> >>

\* Room.Subscribe: the read-locked limit check, the read-locked attach loop, <-g,
\* the locked registration
RoomSubscribeLocks ==
  << <<"rlock", "R">>, <<"runlock", "R">>, <<"rlock", "R">> >> \o attachLocks \o
  << <<"runlock", "R">>, <<"wait", "gather">>, <<"lock", "R">>, <<"unlock", "R">> >>

\* Room.stats: the snapshot of a room under its read lock
statsLocks == << <<"rlock", "R">>, <<"runlock", "R">> >>

\* Manager.ListRooms: m.mu.RLock(), defer m.mu.RUnlock(), r.stats() in the loop
ListRoomsLocks == << <<"rlock", "M">> >> \o statsLocks \o << <<"runlock", "M">> >>

\* Room.Close: the locked snapshot-and-clear, then f.close() for the feeds
RoomCloseLocks ==
  << <<"enter", "Room.Close">>, <<"lock", "R">>, <<"unlock", "R">> >> \o closeLocks

\* a CloseRoom that keeps Manager.mu until it returns
CloseRoomLocks_Deferred == << <<"lock", "M">> >> \o RoomCloseLocks \o << <<"unlock", "M">> >>

\* Manager.CloseRoom: the locked delete, then r.Close()
CloseRoomLocks == << <<"lock", "M">>, <<"unlock", "M">> >> \o RoomCloseLocks

\* Manager.CloseAll: the locked swap of the map, then r.Close() in the loop
CloseAllLocks == << <<"lock", "M">>, <<"unlock", "M">> >> \o RoomCloseLocks

\* the OnTrack callback: the locked insert with attachToSubscriber in its loop, then setRecorder
OnTrackLocks == << <<"lock", "R">> >> \o attachLocks \o << <<"unlock", "R">> >> \o setRecorderLocks

\* the PLI goroutine: for range ticker.C, r.publisher read under the read lock
PliLocks == << <<"wait", "tick">>, <<"rlock", "R">>, <<"runlock", "R">>, <<"loop", "">> >>

\* closePublisher: f.close() in the loop under r.mu
closePublisherLocks == << <<"lock", "R">> >> \o closeLocks \o << <<"unlock", "R">> >>

\* removeSubscriber: f.detachFromSubscriber(pc) in the loop under r.mu
removeSubscriberLocks == << <<"lock", "R">> >> \o detachLocks \o << <<"unlock", "R">> >>

\* readLoop: f.remote.Read, rec := f.rec under the read lock, local.WriteRTP in the
\* loop under the read lock
readLoopLocks ==
  << <<"wait", "read">>, <<"rlock", "F">>, <<"runlock", "F">>,
     <<"rlock", "F">>, <<"wait", "write">>, <<"runlock", "F">>, <<"loop", "">> >>

\* the goroutine attachToSubscriber starts: sender.Read in a loop
drainLocks == << <<"wait", "drain">>, <<"loop", "">> >>

Programs ==
  {"Publish", "Subscribe", "ListRooms", "CloseRoom", "CloseAll", "OnTrack", "Pli",
   "closePublisher", "removeSubscriber", "readLoop", "drain"}

LockOps(p) ==
  CASE p = "Publish" -> getOrCreateRoomLocks \o RoomPublishLocks
    [] p = "Subscribe" -> getOrCreateRoomLocks \o RoomSubscribeLocks
    [] p = "ListRooms" -> ListRoomsLocks
    [] p = "CloseRoom" -> CloseRoomLocks
    [] p = "CloseAll" -> CloseAllLocks
    [] p = "OnTrack" -> OnTrackLocks
    [] p = "Pli" -> PliLocks
    [] p = "closePublisher" -> closePublisherLocks
    [] p = "removeSubscriber" -> removeSubscriberLocks
    [] p = "readLoop" -> readLoopLocks
    [] p = "drain" -> drainLocks
    [] OTHER -> <<>>

\* the thread has started and not returned
Active(t) == lk[t].prog # "none" /\ lk[t].pc <= Len(LockOps(lk[t].prog))

\* the operation the thread is at
Op(t) == IF Active(t) THEN LockOps(lk[t].prog)[lk[t].pc] ELSE <<"none", "">>

\* sync.RWMutex: a Lock that waits keeps new readers out
WriterWaits(l) == \E t \in Threads : lk[t].pend /\ Op(t) = <<"lock", l>>

\* Lock returns when no reader and no writer holds the mutex
CanLock(t, l) == \A u \in Threads : <<l, "w">> \notin lk[u].held /\ <<l, "r">> \notin lk[u].held

\* RLock returns when no writer holds the mutex and none waits for it
CanRLock(t, l) == ~WriterWaits(l) /\ \A u \in Threads : <<l, "w">> \notin lk[u].held

Advance(t, h) == lk' = [lk EXCEPT ![t] = [@ EXCEPT !.pc = @ + 1, !.held = h, !.pend = FALSE]]

\* a thread starts one of the functions
LkStart(t, p) ==
  /\ lk[t].prog = "none"
  /\ \A u \in Threads : u < t => lk[u].prog # "none"
  /\ lk' = [lk EXCEPT ![t] = [NoThread EXCEPT !.prog = p, !.pc = 1]]
  /\ UNCHANGED <<lim, fc, iso, pli, http, mgrVars, roomSt, lockVars, subsGauge, callVars, pcState, gVars, fanIds, closed, recVars, attVars, cr, rl, loopVars>>

\* mu.Lock() is called: the writer is announced
LkWant(t) ==
  /\ Op(t)[1] = "lock" /\ ~lk[t].pend
  /\ lk' = [lk EXCEPT ![t] = [@ EXCEPT !.pend = TRUE]]
  /\ UNCHANGED <<lim, fc, iso, pli, http, mgrVars, roomSt, lockVars, subsGauge, callVars, pcState, gVars, fanIds, closed, recVars, attVars, cr, rl, loopVars>>

\* mu.Lock() returns
LkLock(t) ==
  /\ Op(t)[1] = "lock" /\ lk[t].pend
  /\ CanLock(t, Op(t)[2])
  /\ Advance(t, lk[t].held \cup {<<Op(t)[2], "w">>})
  /\ UNCHANGED <<lim, fc, iso, pli, http, mgrVars, roomSt, lockVars, subsGauge, callVars, pcState, gVars, fanIds, closed, recVars, attVars, cr, rl, loopVars>>

\* mu.RLock() returns
LkRLock(t) ==
  /\ Op(t)[1] = "rlock"
  /\ CanRLock(t, Op(t)[2])
  /\ Advance(t, lk[t].held \cup {<<Op(t)[2], "r">>})
  /\ UNCHANGED <<lim, fc, iso, pli, http, mgrVars, roomSt, lockVars, subsGauge, callVars, pcState, gVars, fanIds, closed, recVars, attVars, cr, rl, loopVars>>

\* mu.Unlock() and mu.RUnlock()
LkUnlock(t) ==
  /\ Op(t)[1] \in {"unlock", "runlock"}
  /\ Advance(t, lk[t].held \ {<<Op(t)[2], IF Op(t)[1] = "unlock" THEN "w" ELSE "r">>})
  /\ UNCHANGED <<lim, fc, iso, pli, http, mgrVars, roomSt, lockVars, subsGauge, callVars, pcState, gVars, fanIds, closed, recVars, attVars, cr, rl, loopVars>>

\* what the thread was suspended in returns; Room.Close is entered
LkPass(t) ==
  /\ Op(t)[1] \in {"wait", "enter"}
  /\ Advance(t, lk[t].held)
  /\ UNCHANGED <<lim, fc, iso, pli, http, mgrVars, roomSt, lockVars, subsGauge, callVars, pcState, gVars, fanIds, closed, recVars, attVars, cr, rl, loopVars>>

\* the end of a loop body: the next iteration, or the loop is left
LkLoop(t) ==
  /\ Op(t)[1] = "loop"
  /\ \E n \in {1, lk[t].pc + 1} : lk' = [lk EXCEPT ![t] = [@ EXCEPT !.pc = n]]
  /\ UNCHANGED <<lim, fc, iso, pli, http, mgrVars, roomSt, lockVars, subsGauge, callVars, pcState, gVars, fanIds, closed, recVars, attVars, cr, rl, loopVars>>

InitLocks ==
  /\ lim = [steps |-> 0, names |-> {"demo"}, pkts |-> 0]
  /\ iso = NoIso
  /\ Fresh

NextLocks ==
  \/ \E t \in Threads, p \in Programs : LkStart(t, p)
  \/ \E t \in Threads : LkWant(t)
  \/ \E t \in Threads : LkLock(t)
  \/ \E t \in Threads : LkRLock(t)
  \/ \E t \in Threads : LkUnlock(t)
  \/ \E t \in Threads : LkPass(t)
  \/ \E t \in Threads : LkLoop(t)

SpecLocks == InitLocks /\ [][NextLocks]_vars

(* ----- the claims ----- *)

\* successful Publish calls of a room whose connection nothing has started to tear
\* down: no closePublisher was scheduled for it, no Room.Close took it, it is open
LivePublishers(r) ==
  {c \in PCs : /\ call[c].kind = "pub" /\ call[c].room = r /\ call[c].res = "ok"
               /\ pcState[c] = "open" /\ iceCount[c] = 0
               /\ \A k \in Closers : cr[k].pub # c}

\* C1: of the Publish calls of one room at most one has returned success while the
\* connection of an earlier successful one is still live
C1_SinglePublisher == \A r \in RoomIds : Cardinality(LivePublishers(r)) <= 1

\* C2: once CloseRoom has returned true, the publisher and every subscriber that the
\* closed Room object holds are closed connections
C2_ClosedRoomHoldsNoLiveConnection ==
  \A k \in Closers : (cr[k].loc = "done" /\ cr[k].ok) =>
     /\ publisher[cr[k].room] # 0 => pcState[publisher[cr[k].room]] = "closed"
     /\ \A s \in subs[cr[k].room] : pcState[s] = "closed"

\* C3: with MaxSubsPerRoom = M > 0 the subscriber set of a room never holds more
\* than M connections
C3_SubscriberCap == \A r \in RoomIds : MaxSubsPerRoom > 0 => Cardinality(subs[r]) <= MaxSubsPerRoom

\* C4: CloseRoom(name) returns true exactly when name has an entry when the call takes
\* Manager.mu; the entry is gone from then on until a Publish or Subscribe makes a new
\* Room for the name; for a name without an entry it returns false without running
\* Room.Close and the map stays as it was
C4_CloseRoom ==
  [][/\ \A k \in Closers : (cr[k].loc = "idle" /\ cr'[k].kind = "room") =>
          /\ cr'[k].ok = (rooms[cr'[k].name] # 0)
          /\ rooms'[cr'[k].name] = 0
          /\ \A m \in Names \ {cr'[k].name} : rooms'[m] = rooms[m]
          /\ ~cr'[k].ok => (rooms' = rooms /\ cr'[k].loc = "done" /\ ListRooms' = ListRooms)
          /\ cr'[k].ok => stats(rooms[cr'[k].name]) \notin ListRooms'
     /\ \A k \in Closers : cr[k].loc # "idle" => (cr'[k].ok = cr[k].ok /\ cr'[k].name = cr[k].name)
     /\ \A n \in Names : (rooms[n] = 0 /\ rooms'[n] # 0) =>
          (nextPC' = nextPC + 1 /\ call'[nextPC'].name = n /\ call'[nextPC'].room = rooms'[n] /\ rooms'[n] = nextRoom')
    ]_vars

\* C4 happens: one CloseRoom has returned true, another false
C4_Witness ==
  \E k, j \in Closers : /\ cr[k].loc = "done" /\ cr[k].ok /\ rooms[cr[k].name] = 0
                        /\ cr[j].loc = "done" /\ ~cr[j].ok

\* the step in which call c leaves the first locked section of Publish / Subscribe
Checks(c) == call[c].loc = "check" /\ call'[c].loc # "check"

\* C5: a Publish that finds the publisher slot occupied fails with PublisherExists,
\* builds no connection, and leaves publisher, tracks, subscribers and ListRooms() as they were
C5_PublisherExists ==
  [][\A c \in PCs : (Checks(c) /\ call[c].kind = "pub" /\ publisher[call[c].room] # 0) =>
       /\ call'[c].loc = "done" /\ call'[c].res = "PublisherExists"
       /\ pcState'[c] = "none"
       /\ UNCHANGED <<rooms, roomSt, attVars, pcState, closed>>
       /\ ListRooms' = ListRooms]_vars

\* C5 happens: a Publish has been refused by a room with a publisher
C5_Witness == \E c \in PCs : call[c].res = "PublisherExists" /\ publisher[call[c].room] # 0

\* C6: with M = MaxSubsPerRoom > 0 subscribers registered a further Subscribe fails with
\* SubscriberLimit; the subscriber set, ListRooms() and every fanout's locals stay unchanged
C6_SubscriberLimit ==
  [][\A c \in PCs : (Checks(c) /\ call[c].kind = "sub" /\ MaxSubsPerRoom > 0
                      /\ Cardinality(subs[call[c].room]) = MaxSubsPerRoom) =>
       /\ call'[c].loc = "done" /\ call'[c].res = "SubscriberLimit"
       /\ pcState'[c] = "none"
       /\ UNCHANGED <<rooms, roomSt, attVars, pcState>>
       /\ ListRooms' = ListRooms]_vars

\* C6 happens: a Subscribe has been refused by a room with M subscribers
C6_Witness ==
  \E c \in PCs : call[c].res = "SubscriberLimit" /\ Cardinality(subs[call[c].room]) = MaxSubsPerRoom

\* C7: every registered subscriber has an entry in the locals of every fanout of the
\* room's tracks map, unless the library rejected the attach of that pair
C7_AttachedOrRejected ==
  \A r \in RoomIds : \A s \in subs[r] : \A f \in Feeds(r) : s \in locals[f] \/ <<f, s>> \in rejected

\* C8: every fanout in a room's tracks map was built by the room's current publisher;
\* with an empty publisher slot the tracks map is empty
C8_TracksOfPublisher == \A r \in RoomIds : \A f \in Feeds(r) : publisher[r] # 0 /\ fanPub[f] = publisher[r]

\* the step in which the readLoop of f leaves position p
Leaves(f, p) == rl[f] = p /\ rl'[f] # p

\* C9: every packet that parses reaches the loop over f.locals, and that loop writes to
\* the local track of every subscriber in f.locals one packet with the sequence number,
\* timestamp and payload of the packet read; nothing else writes to a local track
C9_FanoutComplete ==
  [][\A f \in Fans :
       /\ Leaves(f, "count") /\ pkt[f].ok => rl'[f] = "rec"
       /\ Leaves(f, "rec") => rl'[f] \in {"write", "fan"}
       /\ Leaves(f, "write") => rl'[f] = "fan"
       /\ Leaves(f, "fan") =>
            \A s \in PCs :
              delivered'[f][s] = IF s \in locals[f]
                                   THEN Append(delivered[f][s], [seq |-> pkt[f].seq, ts |-> pkt[f].ts, payload |-> pkt[f].payload])
                                   ELSE delivered[f][s]
       /\ ~Leaves(f, "fan") => delivered'[f] = delivered[f]
       /\ \A s \in PCs : \A i, j \in 1..Len(delivered'[f][s]) :
            i < j => delivered'[f][s][i].seq < delivered'[f][s][j].seq
    ]_vars

\* C9 happens: two packets went to a subscriber attached from the start, and the second
\* of them also to one attached in between
C9_Witness ==
  \E f \in Fans : \E s, u \in PCs :
    /\ Len(delivered[f][s]) = 2 /\ Len(delivered[f][u]) = 1
    /\ delivered[f][u][1] = delivered[f][s][2]

\* C10: once f.closed is closed, the fanout writes to no local track, not to the
\* recorder, and adds nothing to the RTP byte and packet counters
C10_ClosedWritesNothing ==
  [][\A f \in Fans : closed[f] =>
       /\ delivered'[f] = delivered[f]
       /\ recWrites'[f] = recWrites[f]
       /\ ~Leaves(f, "count")]_vars

\* C11: however many goroutines call close() on a fanout, the closed channel is closed
\* once (no call closes it a second time), the recorder is closed at most once and at
\* most one upload is started
C11_CloseIdempotent ==
  /\ ~Panicked
  /\ \A f \in Fans : recCloses[f] <= 1 /\ uploads[f] <= 1 /\ uploads[f] = recCloses[f]

\* a close() of fanout f is between its select and the end of its locked section
Closing(f) == (\E r \in RoomIds : cpCur[r] = f) \/ (\E k \in Closers : cr[k].cur = f)

\* C12: a recorder given to setRecorder is closed exactly once: never twice, and it is
\* not left open once close() of its fanout has run, which closePublisher and Room.Close
\* do before they are through
C12_RecorderClosedOnce ==
  \A f \in Fans : /\ recCloses[f] <= 1
                   /\ (closed[f] /\ ~Closing(f)) => recState[f] # "open"

\* nothing is under way: every call has returned, every goroutine that an ICE callback
\* started has ended, no CloseRoom or CloseAll is running
Quiescent ==
  /\ \A c \in PCs : call[c].loc \in {"idle", "done"} /\ gWait[c] = 0 /\ gClose[c] = 0 /\ gDec[c] = 0
  /\ \A r \in RoomIds : mu[r] = 0
  /\ \A k \in Closers : cr[k].loc \in {"idle", "done"}

\* C13: at every quiescent moment the subscribers gauge of a room name equals the size
\* of the subscriber set of the room registered under that name (0 when there is none)
C13_SubscribersGauge ==
  Quiescent => \A n \in Names : subsGauge[n] = IF rooms[n] # 0 THEN Cardinality(subs[rooms[n]]) ELSE 0

\* C14: at every quiescent moment the rooms gauge equals the number of entries of the
\* Manager's rooms map
C14_RoomsGauge == Quiescent => roomsGauge = Cardinality(Registered)

\* the step in which a closePublisher(c) that found c in the publisher slot of its room
\* leaves its locked section
CpLeaves(c) ==
  /\ call[c].kind = "pub" /\ publisher[call[c].room] = c
  /\ gClose'[c] = gClose[c] + 1

\* C15: when closePublisher has run for the current publisher the room shows no
\* publisher and no tracks; its subscriber set and the Manager's map are as before
C15_ClosePublisherFrame ==
  [][\A c \in PCs : CpLeaves(c) =>
       /\ publisher'[call[c].room] = 0
       /\ \A t \in Tids : trackFeeds'[call[c].room][t] = 0
       /\ stats(call[c].room)' = [Name |-> roomName[call[c].room], HasPublisher |-> FALSE, Tracks |-> 0,
                                  Subscribers |-> Cardinality(subs[call[c].room])]
       /\ subs' = subs /\ locals' = locals
       /\ rooms' = rooms /\ roomsGauge' = roomsGauge]_vars

\* C15 happens: closePublisher has cleared a publisher that had a track, in a room that
\* is registered and has a subscriber
C15_Witness ==
  \E c \in PCs : /\ call[c].kind = "pub" /\ call[c].res = "ok" /\ gClose[c] > 0
                  /\ publisher[call[c].room] = 0 /\ Feeds(call[c].room) = {}
                  /\ \E f \in Fans : fanPub[f] = c /\ closed[f]
                  /\ rooms[call[c].name] = call[c].room
                  /\ subs[call[c].room] # {}

\* no CloseRoom(n) and no CloseAll has started
NeverClosed(n) == \A k \in Closers : cr[k].loc = "idle" \/ (cr[k].kind = "room" /\ cr[k].name # n)

\* the Publish and Subscribe calls made so far
Started == {c \in PCs : call[c].kind # "none"}

\* C16: the calls that name one room are all delegated to one Room instance as long as
\* no CloseRoom of the name and no CloseAll comes between, a Room is built only for a
\* name that has no entry, and different names have different instances
C16_OneRoomPerName ==
  /\ [](\A c, d \in Started :
          /\ (call[c].name = call[d].name /\ NeverClosed(call[c].name)) =>
                (call[c].room = call[d].room /\ rooms[call[c].name] = call[c].room)
          /\ call[c].name # call[d].name => call[c].room # call[d].room
          /\ roomName[call[c].room] = call[c].name)
  /\ [](\A n, m \in Registered : n # m => rooms[n] # rooms[m])
  /\ [][nextPC' = nextPC + 1 =>
          /\ call'[nextPC'].room = rooms'[call'[nextPC'].name]
          /\ IF rooms[call'[nextPC'].name] # 0
               THEN rooms' = rooms /\ nextRoom' = nextRoom
               ELSE /\ nextRoom' = nextRoom + 1 /\ rooms'[call'[nextPC'].name] = nextRoom'
                    /\ \A m \in Names \ {call'[nextPC'].name} : rooms'[m] = rooms[m]]_vars

\* C16 happens: two calls of one name share their Room while a call of the other name
\* has another one
C16_Witness ==
  \E c, d, e \in Started : /\ c # d /\ call[c].name = call[d].name /\ call[c].room = call[d].room
                            /\ call[e].name # call[c].name /\ call[e].room # call[c].room
                            /\ NeverClosed(call[c].name) /\ NeverClosed(call[e].name)

\* the step in which call c returns an error
Fails(c) == call[c].loc # "done" /\ call'[c].loc = "done" /\ call'[c].res # "ok"

InMap == {rooms[n] : n \in Registered}

\* C18: CloseAll takes every registered room out of the map in one step, runs Close on
\* each room it took, and none of them is in the map (so in ListRooms()) afterwards
C18_CloseAll ==
  /\ [][\A k \in Closers : (cr[k].loc = "idle" /\ cr'[k].kind = "all") =>
          /\ cr'[k].took = InMap
          /\ \A n \in Names : rooms'[n] = 0
          /\ ListRooms' = {}]_vars
  /\ [](\A k \in Closers : cr[k].kind = "all" =>
          /\ cr[k].took \cap InMap = {}
          /\ cr[k].shut \subseteq cr[k].took
          /\ cr[k].loc = "done" => cr[k].shut = cr[k].took)

\* C18 happens: a CloseAll that found two rooms has returned
C18_Witness ==
  \E k \in Closers : cr[k].kind = "all" /\ cr[k].loc = "done" /\ Cardinality(cr[k].took) = 2

\* C19: Room.Close clears publisher, tracks and subscribers in one step, after which the
\* snapshot of the room shows no publisher, 0 tracks and 0 subscribers; no other step of
\* Room.Close changes any of the three, so no snapshot sees them cleared in part
C19_CloseClearsAtOnce ==
  [][\A k \in Closers :
       /\ (cr[k].loc = "close" /\ cr'[k].loc # "close") =>
            /\ publisher'[cr[k].room] = 0
            /\ \A t \in Tids : trackFeeds'[cr[k].room][t] = 0
            /\ subs'[cr[k].room] = {}
            /\ stats(cr[k].room)' = [Name |-> roomName[cr[k].room], HasPublisher |-> FALSE, Tracks |-> 0, Subscribers |-> 0]
            /\ cr'[k].pub = publisher[cr[k].room] /\ cr'[k].feeds = Feeds(cr[k].room) /\ cr'[k].subs = subs[cr[k].room]
            /\ \A r \in RoomIds \ {cr[k].room} :
                 publisher'[r] = publisher[r] /\ trackFeeds'[r] = trackFeeds[r] /\ subs'[r] = subs[r]
       /\ (cr[k].loc \in {"pub", "rest"} /\ cr'[k] # cr[k]) => UNCHANGED roomSt
    ]_vars

\* C19 happens: Room.Close has just cleared a room that had a publisher and a subscriber
C19_Witness ==
  \E k \in Closers : /\ cr[k].loc = "pub" /\ cr[k].pub # 0 /\ cr[k].subs # {}
                      /\ publisher[cr[k].room] = 0 /\ subs[cr[k].room] = {}

\* C20: a write to the packet handed to one subscriber shows neither in the packet
\* handed to another subscriber nor in the packet that was read
C20_PacketIsolation ==
  /\ Deep(iso.src, iso.heap) = iso.srcVal
  /\ \A s \in iso.to \ iso.touched : Deep(iso.out[s], iso.heap) = iso.sent[s]

\* the track of fanout f is live: its publisher's connection is open and nothing has
\* started to tear it down (no terminal ICE state, no Room.Close that took it)
TrackLive(f) ==
  /\ fanPub[f] # 0 /\ pcState[fanPub[f]] = "open" /\ iceCount[fanPub[f]] = 0
  /\ \A k \in Closers : cr[k].pub # fanPub[f]

\* C21: at every tick of its ticker while the track is live, the PLI goroutine of a
\* fanout writes one PLI to the publisher of the track and keeps running (with a tick
\* every 2 seconds, this is what puts a PLI into every 3-second window)
C21_PliEveryTick ==
  [][\A f \in Fans : (pli'[f].ticks = pli[f].ticks + 1 /\ TrackLive(f)) =>
       /\ pli'[f].loc = "run"
       /\ pli'[f].n = pli[f].n + 1
       /\ pli'[f].to = fanPub[f]]_vars

\* connection c is in no publisher slot and no subscriber set
Absent(c) == \A r \in RoomIds : publisher[r] # c /\ c \notin subs[r]

\* C22: a connection whose ICE state has reached failed, disconnected or closed is in
\* the end, and for good, in no publisher slot and no subscriber set
C22_IceCleanup == \A c \in PCs : [](iceCount[c] > 0 => <>[]Absent(c))

\* C23: the publisher slot of a room changes only from empty to a connection, by the
\* store of that connection's Publish, and from a connection to empty, by the
\* closePublisher of that connection or by Room.Close; never from one connection to another
C23_SlotTransitions ==
  [][\A r \in RoomIds : publisher'[r] # publisher[r] =>
       \/ /\ publisher[r] = 0
          /\ call[publisher'[r]].kind = "pub" /\ call[publisher'[r]].loc = "store"
          /\ call'[publisher'[r]].res = "ok"
       \/ /\ publisher'[r] = 0
          /\ \/ gClose'[publisher[r]] = gClose[publisher[r]] + 1
             \/ \E k \in Closers : cr[k].loc = "close" /\ cr[k].room = r /\ cr'[k].pub = publisher[r]]_vars

\* C24: a closePublisher(pc) whose pc is not in the publisher slot leaves the slot, the
\* track map, the closed flags of the fanouts, their attachments and the subscribers
\* as they are; all it does is close pc
C24_StaleClosePublisher ==
  [][\A c \in PCs : call[c].kind = "pub" =>
       /\ (gWait'[c] = gWait[c] - 1 /\ publisher[call[c].room] # c) =>
            /\ publisher' = publisher /\ trackFeeds' = trackFeeds /\ subs' = subs
            /\ closed' = closed /\ locals' = locals /\ recState' = recState
            /\ pcState' = pcState /\ mu' = mu
            /\ gClose'[c] = gClose[c] + 1
       /\ gClose'[c] = gClose[c] - 1 =>
            /\ publisher' = publisher /\ trackFeeds' = trackFeeds /\ subs' = subs
            /\ closed' = closed /\ locals' = locals /\ recState' = recState
            /\ pcState' = [pcState EXCEPT ![c] = "closed"]]_vars

\* a connection that never reached the slot was closed by its closePublisher while
\* the slot holds another connection
C24_Witness ==
  \E c \in PCs : /\ call[c].kind = "pub" /\ call[c].loc = "store" /\ pcState[c] = "closed"
                 /\ iceCount[c] > 0 /\ gWait[c] = 0 /\ gClose[c] = 0
                 /\ publisher[call[c].room] \notin {0, c}

\* C25: a recorder is written only while its fanout is not closed: no WriteRTP on a
\* recorder comes after that recorder's Close
C25_NoWriteAfterRecorderClose ==
  [][\A f \in Fans : recWrites'[f] # recWrites[f] => recState[f] = "open"]_vars

\* Manager lock before Room lock before TrackFanout lock
Rank(l) == CASE l = "M" -> 1 [] l = "R" -> 2 [] l = "F" -> 3 [] OTHER -> 0

\* the thread can take its next step
CanStep(t) ==
  \/ Op(t)[1] \in {"unlock", "runlock", "wait", "enter", "loop"}
  \/ Op(t)[1] = "lock" /\ (~lk[t].pend \/ CanLock(t, Op(t)[2]))
  \/ Op(t)[1] = "rlock" /\ CanRLock(t, Op(t)[2])

\* C26: a thread that asks for a lock holds only coarser locks (Manager, then Room,
\* then TrackFanout), Room.Close is entered with the Manager lock not held, and
\* whenever some thread has not returned some thread can take a step
C26_LockOrder ==
  /\ \A t \in Threads : Op(t)[1] \in {"lock", "rlock"} =>
       \A h \in lk[t].held : Rank(h[1]) < Rank(Op(t)[2])
  /\ \A t \in Threads : Op(t) = <<"enter", "Room.Close">> =>
       \A h \in lk[t].held : h[1] # "M"
  /\ (\E t \in Threads : Active(t)) => \E t \in Threads : CanStep(t)

\* one thread holds the Room lock and waits for the TrackFanout lock that another one
\* holds, and a thread is in Room.Close
C26_Witness ==
  \E t, u \in Threads :
    /\ t # u
    /\ <<"R", "w">> \in lk[t].held /\ Op(t) = <<"lock", "F">> /\ lk[t].pend
    /\ lk[t].prog = "closePublisher"
    /\ lk[u].prog = "CloseRoom" /\ <<"F", "w">> \in lk[u].held

\* C27: a thread suspended in the ICE-gathering wait, a remote-track read, a local-track
\* write, an RTCP drain read or a PLI ticker wait holds no lock
C27_NoLockWhileSuspended ==
  \A t \in Threads : Op(t)[1] = "wait" => lk[t].held = {}

\* C28: the locked section of removeSubscriber(pc), for a registered pc, takes pc out of
\* the room's subscriber set and out of the locals of every fanout in the room's track
\* map, and leaves the publisher, the track map and the registrations and local-track
\* entries of every other subscriber as they are
C28_RemoveSubscriberFrame ==
  [][\A c \in PCs :
       (call[c].kind = "sub" /\ gWait'[c] = gWait[c] - 1 /\ c \in subs[call[c].room]) =>
         /\ c \notin subs'[call[c].room]
         /\ \A f \in Feeds(call[c].room) : c \notin locals'[f]
         /\ publisher' = publisher /\ trackFeeds' = trackFeeds
         /\ subs' = [subs EXCEPT ![call[c].room] = @ \ {c}]
         /\ \A f \in Fans : locals'[f] \ {c} = locals[f] \ {c}]_vars

\* the subscriber that was attached to the fanout is gone from the set and from the
\* fanout's locals, and another subscriber is still registered and attached
C28_Witness ==
  \E c, o \in PCs, f \in Fans :
    /\ c # o /\ call[c].kind = "sub" /\ call[c].res = "ok" /\ iceCount[c] > 0 /\ gWait[c] = 0
    /\ f \in Feeds(call[c].room) /\ <<f, c>> \notin rejected
    /\ c \notin subs[call[c].room] /\ c \notin locals[f]
    /\ o \in subs[call[c].room] /\ o \in locals[f]

\* removeSubscriber(c) invocations that have run to their end
Finished(c) == iceCount[c] - gWait[c] - gClose[c] - gDec[c]

\* C29: a further removeSubscriber(pc), after one for the same connection has run to
\* its end, changes no metric: its last step leaves the subscribers gauge as it is
C29_RepeatedCleanupNoEffect ==
  [][\A c \in PCs : (call[c].kind = "sub" /\ Finished(c) >= 1 /\ gDec'[c] = gDec[c] - 1) =>
       subsGauge' = subsGauge]_vars

\* C30: when the attach of a fanout to a subscriber fails, the fanout's locals get no
\* entry for the subscriber and no drain goroutine is started for the pair, and the
\* handling goes on: in the OnTrack callback the subscriber stays registered, keeps its
\* entries in the other fanouts, and the other subscribers are attached; in Subscribe
\* the connection is attached to every other feed of the room
C30_AttachFailureSkipped ==
  [][\A f \in Fans, c \in PCs : (<<f, c>> \in rejected' /\ <<f, c>> \notin rejected) =>
       /\ c \notin locals'[f] /\ <<f, c>> \notin drains'
       /\ subs' = subs
       /\ \A g \in Fans \ {f} : locals'[g] \ {c} = locals[g] \ {c}
       /\ IF nextFan' # nextFan
            THEN /\ f = nextFan' /\ c \in subs'[fanRoom'[f]]
                 /\ \A g \in Fans \ {f} : locals'[g] = locals[g]
                 /\ \A o \in subs'[fanRoom'[f]] : <<f, o>> \in rejected' \/ o \in locals'[f]
            ELSE /\ call[c].loc = "attach" /\ f \in Feeds(call[c].room)
                 /\ \A g \in Feeds(call[c].room) : <<g, c>> \in rejected' \/ (c \in locals'[g] /\ <<g, c>> \in drains')]_vars

\* a Subscribe whose attach to one feed of the room failed has returned success: the
\* connection is registered, attached to the other feed, and has no entry in the first
C30_Witness ==
  \E c \in PCs, f, g \in Fans :
    /\ f # g /\ call[c].kind = "sub" /\ call[c].res = "ok" /\ c \in subs[call[c].room]
    /\ {f, g} \subseteq Feeds(call[c].room)
    /\ <<f, c>> \in rejected /\ c \notin locals[f] /\ <<f, c>> \notin drains
    /\ c \in locals[g] /\ <<g, c>> \in drains

\* C31: a Publish or Subscribe that returns an error of the negotiation leaves no open
\* connection behind (a connection that was built is closed before the return) and
\* leaves the publisher slot and the subscriber set of the room as they are
C31_NegotiationFailureCloses ==
  [][\A c \in PCs : (call'[c].res = "error" /\ call[c].res # "error") =>
       /\ pcState'[c] # "open"
       /\ pcState[c] = "open" => pcState'[c] = "closed"
       /\ publisher' = publisher /\ subs' = subs]_vars

\* a Subscribe has failed in the negotiation: its connection is closed and not in the
\* subscriber set, and the publisher of the room is still in the slot
C31_Witness ==
  \E c, d \in PCs :
    /\ call[c].kind = "pub" /\ call[c].res = "ok" /\ pcState[c] = "open"
    /\ call[d].kind = "sub" /\ call[d].res = "error" /\ pcState[d] = "closed"
    /\ call[c].room = call[d].room
    /\ publisher[call[c].room] = c /\ subs[call[c].room] = {}

\* C32: when no call, callback or close is under way, every connection with an entry
\* in the locals of a fanout of a room's track map is in the room's subscriber set
C32_LocalsAreSubscribers ==
  Quiescent => \A r \in RoomIds : \A f \in Feeds(r) : locals[f] \subseteq subs[r]

\* closePublisher has cleared the publisher that delivered the track of fanout f: it
\* has closed the fanout in its loop and then the connection
PublisherGone(f) == fanPub[f] # 0 /\ closed[f] /\ pcState[fanPub[f]] = "closed"

\* C33: under fair scheduling the PLI loop of a track ends once the publisher that
\* delivered the track has been cleared
C33_PliLoopEnds ==
  \A f \in Fans : [](PublisherGone(f) => <>(pli[f].loc # "run"))

\* C34: the PLIs that carry the SSRC of a track are written only to the connection
\* that published the track
C34_PliToOwnPublisher == \A f \in Fans : pli[f].n > 0 => pli[f].to = fanPub[f]

\* C35: when closePublisher clears the publisher slot, every fanout that was built for a
\* track of that publisher is closed, also one whose entry in the track map was
\* replaced by a later track with the same id
C35_AllFanoutsClosed ==
  [][\A r \in RoomIds : (publisher[r] # 0 /\ publisher'[r] = 0) =>
       \A f \in Fans : (fanPub[f] = publisher[r] /\ fanRoom[f] = r) => closed'[f]]_vars

\* C36: the step of readLoop after a read of n bytes adds n to the bytes counter and 1
\* to the packets counter of the room, whether or not the packet parses; the counters
\* never decrease; a packet that does not parse is written neither to the recorder
\* nor to a subscriber
C36_CountBeforeParse ==
  [][/\ \A n \in Names : rtpBytes'[n] >= rtpBytes[n] /\ rtpPackets'[n] >= rtpPackets[n]
     /\ \A f \in Fans :
          /\ (rl[f] = "count" /\ rl'[f] # "count") =>
               /\ rtpBytes'[roomName[fanRoom[f]]] = rtpBytes[roomName[fanRoom[f]]] + pkt[f].n
               /\ rtpPackets'[roomName[fanRoom[f]]] = rtpPackets[roomName[fanRoom[f]]] + 1
               /\ ~pkt[f].ok => rl'[f] = "top"
          /\ (recWrites'[f] # recWrites[f] \/ delivered'[f] # delivered[f]) => pkt[f].ok]_vars

\* a packet that did not parse was read and counted, and readLoop is back at the top
\* with nothing written to the attached subscriber or to the recorder
C36_Witness ==
  \E f \in Fans :
    /\ nread[f] = 1 /\ ~pkt[f].ok /\ pkt[f].n = 1 /\ rl[f] = "top"
    /\ rtpBytes[roomName[fanRoom[f]]] = 1 /\ rtpPackets[roomName[fanRoom[f]]] = 1
    /\ recSet[f] /\ recWrites[f] = 0
    /\ \E c \in locals[f] : delivered[f][c] = <<>>

\* C37: under fair scheduling, once a fanout and the connection of its publisher are
\* closed, the readLoop of the fanout ends
C37_ReadLoopEnds ==
  \A f \in Fans : []((closed[f] /\ pcState[fanPub[f]] = "closed") => <>(rl[f] = "done"))

\* Room.Close has closed the publisher's connection and the fanout while readLoop was
\* in an iteration, and readLoop has ended
C37_Witness ==
  \E f \in Fans, k \in Closers :
    /\ closed[f] /\ pcState[fanPub[f]] = "closed" /\ cr[k].pub = fanPub[f]
    /\ nread[f] > 0 /\ rl[f] = "done"

(* ----- HTTP handlers (package api) and the routes of main ----- *)

\* the characters of the room names
Chars(n) ==
  CASE n = "demo" -> <<"d", "e", "m", "o">>
    [] n = "../etc" -> <<".", ".", "/", "e", "t", "c">>
    [] OTHER -> <<>>

\* strings.Contains(s, sub)
Contains(s, sub) ==
  \E i \in 1..(Len(s) - Len(sub) + 1) : SubSeq(s, i, i + Len(sub) - 1) = sub

\* the configurations NewHTTPHandlers is given
Configs ==
  {[AuthToken |-> a, RoomTokens |-> [n \in Names |-> IF n = "demo" THEN t ELSE ""], JWTSecret |-> j, RateLimitRPS |-> l] :
     a \in {"", "secure-token"}, t \in {"", "room-token"}, j \in {"", "key"}, l \in {0, 1}}

\* Authorization headers: none, a bearer token, a JWT signed with a key and carrying a room claim or none
Bearers ==
  {NoBearer,
   [tok |-> "room-token", key |-> "", room |-> ""],
   [tok |-> "jwt", key |-> "key", room |-> "demo"],
   [tok |-> "jwt", key |-> "forged", room |-> ""]}

\* the requests that arrive for one endpoint, as the handlers read them: method, the limiter's
\* verdict for the caller's address, X-Auth-Token, Authorization and the room taken from the path
Requests(ep) ==
  {[via |-> v, ep |-> ep, method |-> m, allow |-> a, xauth |-> x, bearer |-> b, room |-> n] :
     v \in {"route", "direct"}, m \in {"OPTIONS", "GET", "POST"}, a \in BOOLEAN,
     x \in {"", "secure-token"}, b \in Bearers, n \in Names}

\* allowRate: no limiter, or the limiter of the caller's address lets the request pass
allowRate(q) == http.cfg.RateLimitRPS <= 0 \/ q.allow

\* tokenMatch: X-Auth-Token when the header is there, else the bearer token
tokenMatch(q, expect) ==
  IF q.xauth # "" THEN q.xauth = expect
  ELSE IF q.bearer.tok # "" THEN q.bearer.tok = expect
  ELSE FALSE

\* jwtOKRoom: a bearer JWT with a valid HMAC signature whose room claim, if any, is this room
jwtOKRoom(q, room, secret) ==
  /\ q.bearer.tok = "jwt"
  /\ q.bearer.key = secret
  /\ ~(q.bearer.room # "" /\ q.bearer.room # room)

\* authOKRoom: the room's token first, then the global token, then a JWT; open when none is configured
authOKRoom(q) ==
  IF http.cfg.RoomTokens[q.room] # ""
    THEN \/ tokenMatch(q, http.cfg.RoomTokens[q.room])
         \/ (http.cfg.JWTSecret # "" /\ jwtOKRoom(q, q.room, http.cfg.JWTSecret))
  ELSE IF http.cfg.AuthToken # ""
    THEN \/ tokenMatch(q, http.cfg.AuthToken)
         \/ (http.cfg.JWTSecret # "" /\ jwtOKRoom(q, q.room, http.cfg.JWTSecret))
  ELSE IF http.cfg.JWTSecret # ""
    THEN jwtOKRoom(q, q.room, http.cfg.JWTSecret)
  ELSE TRUE

\* the request gets as far as the check of authOKRoom, and the check fails
AuthFails(q) == q.method = "POST" /\ allowRate(q) /\ ~authOKRoom(q)

\* gates that leave out the check of authOKRoom
Gate_NoAuth(q) ==
  IF q.method = "OPTIONS" THEN 204
  ELSE IF q.method # "POST" THEN 405
  ELSE IF ~allowRate(q) THEN 429
  ELSE 0

\* the status the handler answers with before it calls the Manager (0 = it calls the Manager)
Gate(q) ==
  IF q.method = "OPTIONS" THEN 204
  ELSE IF q.method # "POST" THEN 405
  ELSE IF ~allowRate(q) THEN 429
  ELSE IF ~authOKRoom(q) THEN 401
  ELSE 0

\* the handler answers by itself: nothing but the response is written
Answer(denied, code) ==
  /\ http' = [http EXCEPT !.denied = denied, !.status = code, !.c = 0]
  /\ UNCHANGED <<lim, fc, iso, pli, lk, mgrVars, roomSt, lockVars, subsGauge, callVars, pcState, gVars, fanIds, closed, recVars, attVars, cr, rl, loopVars>>

\* the handler calls h.mgr.Publish or h.mgr.Subscribe: Manager.Publish and Manager.Subscribe
\* up to the call of the Room's method; the status is written when that call returns
Forward(q, kind) ==
  /\ Steps < lim.steps /\ nextPC + 1 \in PCs
  /\ getOrCreateRoom(q.room)
  /\ nextPC' = nextPC + 1
  /\ call' = [call EXCEPT ![nextPC + 1] = [kind |-> kind, name |-> q.room, room |-> RoomOf(q.room), loc |-> "check", res |-> "none"]]
  /\ http' = [http EXCEPT !.denied = AuthFails(q), !.status = 0, !.c = nextPC + 1]
  /\ UNCHANGED <<lim, fc, iso, pli, lk, roomSt, lockVars, subsGauge, pcState, gVars, fanIds, closed, recVars, attVars, cr, rl, loopVars>>

\* NewHTTPHandlers
NewHTTPHandlers(cfg) ==
  /\ ~http.up
  /\ http' = [http EXCEPT !.up = TRUE, !.cfg = cfg]
  /\ UNCHANGED <<lim, fc, iso, pli, lk, mgrVars, roomSt, lockVars, subsGauge, callVars, pcState, gVars, fanIds, closed, recVars, attVars, cr, rl, loopVars>>

\* the response to the request before has been written
Idle == IF http.c = 0 THEN TRUE ELSE call[http.c].loc = "done"

\* ServeWHIPPublish, called with the room as its caller gives it
ServeWHIPPublish(q) ==
  /\ http.up /\ Idle /\ q.ep = "whip"
  /\ IF Gate(q) # 0 THEN Answer(AuthFails(q), Gate(q)) ELSE Forward(q, "pub")

\* ServeWHEPPlay
ServeWHEPPlay(q) ==
  /\ http.up /\ Idle /\ q.ep = "whep"
  /\ IF Gate(q) # 0 THEN Answer(AuthFails(q), Gate(q)) ELSE Forward(q, "sub")

\* the route's check of the room it cut from the path
InvalidRoom(room) == Chars(room) = <<>> \/ Contains(Chars(room), <<".", ".">>)

\* main: the handler registered for /api/whip/publish/
PublishRoute(q) ==
  /\ q.via = "route"
  /\ IF InvalidRoom(q.room) THEN http.up /\ Idle /\ q.ep = "whip" /\ Answer(FALSE, 400) ELSE ServeWHIPPublish(q)

\* main: the handler registered for /api/whep/play/
PlayRoute(q) ==
  /\ q.via = "route"
  /\ IF InvalidRoom(q.room) THEN http.up /\ Idle /\ q.ep = "whep" /\ Answer(FALSE, 400) ELSE ServeWHEPPlay(q)

\* the handler called by a caller of the package, as its tests do
PublishDirect(q) == q.via = "direct" /\ ServeWHIPPublish(q)

PlayDirect(q) == q.via = "direct" /\ ServeWHEPPlay(q)

\* the status of the response to the last request (0 = the handler is still in the Manager)
Status ==
  IF http.c = 0 THEN http.status
  ELSE IF call[http.c].loc # "done" THEN 0
  ELSE IF call[http.c].res = "ok" THEN 201
  ELSE 400

InitHttp ==
  /\ lim = [steps |-> MaxSteps - 1, names |-> Names, pkts |-> 0]
  /\ iso = NoIso
  /\ Fresh

NextHttp ==
  \/ \E cfg \in Configs : NewHTTPHandlers(cfg)
  \/ \E q \in Requests("whip") : PublishRoute(q)
  \/ \E q \in Requests("whep") : PlayRoute(q)
  \/ \E q \in Requests("whip") : PublishDirect(q)
  \/ \E q \in Requests("whep") : PlayDirect(q)
  \/ \E c \in PCs : PublishCheck(c)
  \/ \E c \in PCs : PublishStore(c)
  \/ \E c \in PCs : SubscribeCheck(c)
  \/ \E c \in PCs : SubscribeAttach(c)
  \/ \E c \in PCs : SubscribeStore(c)
  \/ \E c \in PCs : SubscribeMetric(c)

SpecHttp == InitHttp /\ [][NextHttp]_vars


\* C38: a WHIP publish or WHEP play request (a POST within the rate limit) that fails
\* authOKRoom is answered with 401 and never reaches the Manager: the step of the handler
\* starts no Manager call, creates no room and changes the state of no room.
C38_AuthFailureStopsAtGate ==
  [][(http' # http /\ http'.denied)
       => /\ http'.status = 401 /\ http'.c = 0
          /\ UNCHANGED <<mgrVars, roomSt, subsGauge, callVars, pcState>>]_vars

\* a request was answered with 401 while a room with a publisher was there
C38_Witness ==
  /\ http.denied /\ Status = 401
  /\ \E n \in Names : rooms[n] # 0 /\ publisher[rooms[n]] # 0

\* C39: a publish request that ServeWHIPPublish would let through to the Manager (a POST
\* within the rate limit that passes authOKRoom) and whose room name contains ".." is
\* answered with 400 by ServeWHIPPublish, and no room is created for that name.
C39_TraversalRejected ==
  [][\A q \in Requests("whip") :
       (q.method = "POST" /\ allowRate(q) /\ authOKRoom(q)
        /\ Contains(Chars(q.room), <<".", ".">>) /\ ServeWHIPPublish(q))
         => /\ http'.status = 400 /\ http'.c = 0
            /\ rooms'[q.room] = rooms[q.room]]_vars

====
